---- MODULE Spec2Model ----
(***************************************************************************)
(* Numerus++ : Roman codec, lexer, parser and interpreter.                 *)
(*                                                                         *)
(* Text is modelled as a sequence of one-character strings, so that        *)
(* "MCM" is <<"M","C","M">>.  Results of fallible functions are records    *)
(* [ok |-> TRUE, val |-> v] (Ok(v)) or [ok |-> FALSE, err |-> e] (Err(e)). *)
(***************************************************************************)
EXTENDS Integers, Sequences, FiniteSets, TLC

VARIABLES
    cpc,        \* codec driver: "int" | "str" | "encoded" | "decoded" | "off"
    num,        \* the integer handed to to_roman
    rom,        \* the result of to_roman(num)
    str,        \* the text handed to from_roman
    dec,        \* the result of from_roman(str)
    lpc,        \* lexer driver: "scan" | "done" | "off"
    input,      \* Lexer.input, the source text
    lx,         \* Lexer.current_pos, line, column
    lxPrev,     \* lx at the start of the latest next_token call
    lastTok,    \* the token the latest next_token call returned
    tokens,     \* the vector tokenize is filling
    lexres,     \* the value tokenize returned
    env,        \* Environment.variables: name -> Value
    prevEnv,    \* env before the latest declare/assign/get or execute_statement
    envCall,    \* the latest call on the Environment
    envOut,     \* what that call returned
    rpc,        \* interpreter driver: "idle" | "run" | "returned" | "off"
    mode,       \* the kind of the latest call: "load" | "run" | "execute"
    loaded,     \* the source text handed to the latest call
    prog,       \* program.statements of the call
    idx,        \* the statement run's loop is at
    output,     \* Interpreter.output
    result,     \* what the latest call returned
    entryEnv,   \* env when the latest call was entered
    done,       \* the statements the call executed, with their results
    printed,    \* the lines written with println! during the call
    older,      \* names declared by earlier calls
    declaredOk, \* names whose Declaration returned Ok so far
    ppc,        \* parser drivers: "ready" | "parsed" | "new" | "loop" | "returned" | "off"
    chain,      \* the expression handed to the parser: operators and parentheses
    pout,       \* what parse returned
    ptokens,    \* Parser.tokens
    pcurrent,   \* Parser.current
    pstatements,\* the vector parse is filling
    pbefore,    \* Parser.current when the latest parse_statement call started
    epc,        \* evaluation driver: "load" | "ready" | "stored" | "done" | "aborted" | "off"
    evalStmt,   \* the latest statement the evaluation driver executed
    evalOut     \* what execute_statement returned for it

codecVars == <<cpc, num, rom, str, dec>>
lexVars == <<lpc, input, lx, lxPrev, lastTok, tokens, lexres>>
envVars == <<env, prevEnv, envCall, envOut>>
runVars == <<rpc, mode, loaded, prog, idx, output, result, entryEnv, done, printed,
             older, declaredOk>>
parseVars == <<ppc, chain, pout, ptokens, pcurrent, pstatements, pbefore>>
evalVars == <<epc, evalStmt, evalOut>>
vars == <<cpc, num, rom, str, dec, lpc, input, lx, lxPrev, lastTok, tokens, lexres,
          env, prevEnv, envCall, envOut, rpc, mode, loaded, prog, idx, output, result,
          entryEnv, done, printed, older, declaredOk, ppc, chain, pout,
          ptokens, pcurrent, pstatements, pbefore,
          epc, evalStmt, evalOut>>

Ok(v) == [ok |-> TRUE, val |-> v]
Err(e) == [ok |-> FALSE, err |-> e]

(***************************************************************************)
(* Bounds of the model                                                     *)
(***************************************************************************)
\* integers handed to to_roman: (1 - IntSlack) .. (ROMAN_MAX + IntSlack)
IntSlack == 2
\* every text over RomanAlphabet up to this length is handed to from_roman
MaxRomanLen == 4
\* every text over the two largest symbols C, M up to this length, too
MaxHighLen == 6
\* a source text is made of up to this many pieces
MaxPieces == 3
\* the token streams handed to the parser come from up to this many pieces
MaxParts == 2
\* a program has up to this many statements
MaxStmts == 3
\* an expression chain has up to this many operators
MaxOps == 3
\* operands lie within this distance of the ends of the ranges
Near == 1

(***************************************************************************)
(* roman/converter.rs                                                      *)
(***************************************************************************)
ROMAN_MAX == 3999

ROMAN_VALUES ==
    << <<1000, <<"M">> >>, <<900, <<"C","M">> >>, <<500, <<"D">> >>,
       <<400, <<"C","D">> >>, <<100, <<"C">> >>, <<90, <<"X","C">> >>,
       <<50, <<"L">> >>, <<40, <<"X","L">> >>, <<10, <<"X">> >>,
       <<9, <<"I","X">> >>, <<5, <<"V">> >>, <<4, <<"I","V">> >>,
       <<1, <<"I">> >> >>

\* the loops over the seven single letters only, without the subtractive pairs
RECURSIVE MutToRomanLoop(_, _)
MutToRomanLoop(n, k) ==
    IF k > Len(ROMAN_VALUES) THEN << >>
    ELSE IF n >= ROMAN_VALUES[k][1]
         THEN ROMAN_VALUES[k][2] \o MutToRomanLoop(n - ROMAN_VALUES[k][1], k)
         ELSE MutToRomanLoop(n, k + 2)

\* the loops of to_roman: for (value, symbol) in ROMAN_VALUES { while n >= value .. }
RECURSIVE ToRomanLoop(_, _)
ToRomanLoop(n, k) ==
    IF k > Len(ROMAN_VALUES) THEN << >>
    ELSE IF n >= ROMAN_VALUES[k][1]
         THEN ROMAN_VALUES[k][2] \o ToRomanLoop(n - ROMAN_VALUES[k][1], k)
         ELSE ToRomanLoop(n, k + 1)

to_roman(n) ==
    IF n <= 0 THEN Err([kind |-> "NegativeOrZero", n |-> n])
    ELSE IF n > ROMAN_MAX THEN Err([kind |-> "Overflow", n |-> n])
    ELSE Ok(ToRomanLoop(n, 1))

\* str::to_uppercase on the letters of the model's alphabet
LowerToUpper ==
    [c \in {"i","v","x","l","c","d","m"} |->
        CASE c = "i" -> "I" [] c = "v" -> "V" [] c = "x" -> "X" [] c = "l" -> "L"
          [] c = "c" -> "C" [] c = "d" -> "D" [] c = "m" -> "M"]

UpperChar(c) == IF c \in DOMAIN LowerToUpper THEN LowerToUpper[c] ELSE c

\* the text as it is, without case folding
MutToUppercase(s) == s

to_uppercase(s) == [i \in 1..Len(s) |-> UpperChar(s[i])]

RomanLetters == {"I","V","X","L","C","D","M"}

\* the match of from_roman that maps a character to its value
RomanCharValue(ch) ==
    CASE ch = "I" -> 1 [] ch = "V" -> 5 [] ch = "X" -> 10 [] ch = "L" -> 50
      [] ch = "C" -> 100 [] ch = "D" -> 500 [] ch = "M" -> 1000 [] OTHER -> 0

\* matches!((value, prev_value), (1,5)|(1,10)|(10,50)|(10,100)|(100,500)|(100,1000))
MutValidSubtractive(value, prev_value) ==
    <<value, prev_value>> \in {<<1,5>>, <<1,10>>, <<10,50>>, <<10,100>>, <<100,500>>}

ValidSubtractive(value, prev_value) ==
    <<value, prev_value>> \in
        {<<1,5>>, <<1,10>>, <<10,50>>, <<10,100>>, <<100,500>>, <<100,1000>>}

\* the final validation of from_roman: re-encode the total and compare
FinalValidation(s, total) ==
    LET reconverted == to_roman(total) IN
    IF reconverted.ok /\ reconverted.val # s
    THEN Err([kind |-> "NonCanonical", s |-> s, expected |-> reconverted.val])
    ELSE Ok(total)

\* the loop "for ch in s.chars().rev()" of from_roman; i is the position of ch,
\* prev_char = "" stands for None
RECURSIVE FromRomanLoop(_, _, _, _, _, _)
FromRomanLoop(s, i, total, prev_value, consecutive_count, prev_char) ==
    IF i = 0 THEN FinalValidation(s, total)
    ELSE
      LET ch == s[i]
          value == RomanCharValue(ch)
          same == prev_char # "" /\ prev_char = ch
          count == IF prev_char = "" THEN consecutive_count
                   ELSE IF same THEN consecutive_count + 1 ELSE 1
      IN
      IF ch \notin RomanLetters
      THEN Err([kind |-> "InvalidCharacter", ch |-> ch])
      ELSE IF same /\ ch \in {"V","L","D"}
      THEN Err([kind |-> "InvalidRepetition", ch |-> ch])
      ELSE IF same /\ count > 3
      THEN Err([kind |-> "TooManyRepetitions", ch |-> ch])
      ELSE IF value < prev_value
      THEN IF ~ValidSubtractive(value, prev_value)
           THEN Err([kind |-> "InvalidSubtractive", s |-> s])
           ELSE FromRomanLoop(s, i - 1, total - value, value, count, ch)
      ELSE FromRomanLoop(s, i - 1, total + value, value, count, ch)

from_roman(s0) ==
    IF Len(s0) = 0 THEN Err([kind |-> "Empty"])
    ELSE LET s == to_uppercase(s0) IN FromRomanLoop(s, Len(s), 0, 0, 1, "")

looks_like_roman(s) ==
    Len(s) # 0 /\ \A i \in 1..Len(s) : s[i] \in RomanLetters

(***************************************************************************)
(* lexer/span.rs, lexer/token.rs                                           *)
(***************************************************************************)
\* Span::new(start, end, line, column)
SpanNew(start, end, line, column) ==
    [start |-> start, end |-> end, line |-> line, column |-> column]

\* Span::point(pos, line, column)
SpanPoint(pos, line, column) == SpanNew(pos, pos, line, column)

\* Token::new(kind, span, lexeme); num and text carry the payload of the kind
Token(kind, n, txt, span, lexeme) ==
    [kind |-> kind, num |-> n, text |-> txt, span |-> span, lexeme |-> lexeme]

\* next_token's Ok(None)
NoToken == Token("None", 0, << >>, SpanPoint(0, 0, 0), << >>)

(***************************************************************************)
(* lexer/lexer.rs                                                          *)
(***************************************************************************)
UpperLetters ==
    {"A","B","C","D","E","F","G","H","I","J","K","L","M",
     "N","O","P","Q","R","S","T","U","V","W","X","Y","Z"}

LowerLetters ==
    {"a","b","c","d","e","f","g","h","i","j","k","l","m",
     "n","o","p","q","r","s","t","u","v","w","x","y","z"}

Digits == {"0","1","2","3","4","5","6","7","8","9"}

\* 'A'..='Z' | 'a'..='z' | '_'
NameStart == UpperLetters \cup LowerLetters \cup {"_"}

\* ch.is_ascii_alphanumeric() || ch == '_'
NameChars == NameStart \cup Digits

Whitespace == {" ", "\t", "\r"}

PunctChars == {"(", ")", "{", "}", ","}

\* self.chars.peek() == None
NoChar == ""

\* Lexer::new
LexerNew == [pos |-> 0, line |-> 1, column |-> 1]

\* self.chars.peek(): the next character of the text, or None
Peek(src, l) == IF l.pos < Len(src) THEN src[l.pos + 1] ELSE NoChar

\* Lexer::advance, when a character is left
advance(l) == [pos |-> l.pos + 1, line |-> l.line, column |-> l.column + 1]

\* while let Some(ch) = peek() { if ch is in class { advance } else { break } }
RECURSIVE ScanWhile(_, _, _)
ScanWhile(src, l, class) ==
    IF Peek(src, l) # NoChar /\ Peek(src, l) \in class
    THEN ScanWhile(src, advance(l), class)
    ELSE l

skip_whitespace(src, l) == ScanWhile(src, l, Whitespace)

\* the text between two lexer positions
Slice(src, from, to) == SubSeq(src, from.pos + 1, to.pos)

single_char_token(src, l) ==
    LET ch == Peek(src, l)
        kind == CASE ch = "(" -> "LeftParen" [] ch = ")" -> "RightParen"
                  [] ch = "{" -> "LeftBrace" [] ch = "}" -> "RightBrace"
                  [] OTHER -> "Comma"
        e == advance(l)
    IN [lx |-> e,
        out |-> Ok(Token(kind, 0, << >>, SpanNew(l.pos, e.pos, l.line, l.column), <<ch>>))]

\* str::trim on the comment text
RECURSIVE TrimStart(_)
TrimStart(s) ==
    IF Len(s) > 0 /\ Head(s) \in Whitespace \cup {"\n"} THEN TrimStart(Tail(s)) ELSE s

RECURSIVE TrimEnd(_)
TrimEnd(s) ==
    IF Len(s) > 0 /\ s[Len(s)] \in Whitespace \cup {"\n"}
    THEN TrimEnd(SubSeq(s, 1, Len(s) - 1)) ELSE s

trim(s) == TrimEnd(TrimStart(s))

\* the characters of the model's texts, for "every character but"
AllChars ==
    NameChars \cup Whitespace \cup PunctChars \cup {"\n", "\"", ":", "+", "-", "."}

read_comment(src, l, start, start_column) ==
    LET e == ScanWhile(src, l, AllChars \ {"\n"})
        comment == Slice(src, l, e)
    IN [lx |-> e,
        out |-> Ok(Token("Comment", 0, trim(comment),
                         SpanNew(start, e.pos, e.line, start_column),
                         <<"N","O","T","A",":"," ">> \o comment))]

\* the keyword table of read_identifier_or_keyword; "" when no keyword matches
KeywordKind(lexeme) ==
    CASE lexeme = <<"D","E","C","L","A","R","A">> -> "Declara"
      [] lexeme = <<"E","S","T">> -> "Est"
      [] lexeme = <<"A","D","D","I","U","S">> -> "Addius"
      [] lexeme = <<"S","U","B","T","R","A","H","E">> -> "Subtrahe"
      [] lexeme = <<"M","U","L","T","I","P","L","I","C","A">> -> "Multiplica"
      [] lexeme = <<"D","I","V","I","D","E">> -> "Divide"
      [] lexeme = <<"S","C","R","I","B","E">> -> "Scribe"
      [] lexeme = <<"A","V","T","E","M">> -> "Avtem"
      [] lexeme = <<"R","O","M","A","N","I","Z","A">> -> "Romaniza"
      [] lexeme = <<"A","R","A","B","I","Z","A">> -> "Arabiza"
      [] lexeme = <<"E","X","P","R","I","M","E">> -> "Exprime"
      [] OTHER -> ""

\* the default arm of the keyword match: Roman literal or identifier
MutRomanOrIdentifier(lexeme, span) ==
    IF Len(lexeme) >= 1 /\ looks_like_roman(lexeme)
    THEN LET r == from_roman(lexeme) IN
         IF r.ok THEN Token("RomanLiteral", r.val, << >>, span, lexeme)
         ELSE Token("Identifier", 0, lexeme, span, lexeme)
    ELSE Token("Identifier", 0, lexeme, span, lexeme)

RomanOrIdentifier(lexeme, span) ==
    IF Len(lexeme) >= 2 /\ looks_like_roman(lexeme)
    THEN LET r == from_roman(lexeme) IN
         IF r.ok THEN Token("RomanLiteral", r.val, << >>, span, lexeme)
         ELSE Token("Identifier", 0, lexeme, span, lexeme)
    ELSE Token("Identifier", 0, lexeme, span, lexeme)

read_identifier_or_keyword(src, l) ==
    LET e == ScanWhile(src, l, NameChars)
        lexeme == Slice(src, l, e)
        span == SpanNew(l.pos, e.pos, l.line, l.column)
    IN IF lexeme = <<"N","O","T","A">> /\ Peek(src, e) = ":"
       THEN read_comment(src, advance(e), l.pos, l.column)
       ELSE [lx |-> e,
             out |-> Ok(IF KeywordKind(lexeme) # ""
                        THEN Token(KeywordKind(lexeme), 0, << >>, span, lexeme)
                        ELSE RomanOrIdentifier(lexeme, span))]

\* Decimal numbers that may exceed the integers of the model checker are kept
\* as their digits without leading zeros (<< >> is zero).
RECURSIVE StripZeros(_)
StripZeros(d) == IF Len(d) > 0 /\ Head(d) = "0" THEN StripZeros(Tail(d)) ELSE d

DigitValue(c) ==
    CASE c = "0" -> 0 [] c = "1" -> 1 [] c = "2" -> 2 [] c = "3" -> 3 [] c = "4" -> 4
      [] c = "5" -> 5 [] c = "6" -> 6 [] c = "7" -> 7 [] c = "8" -> 8 [] OTHER -> 9

\* a > b for two digit texts of the same length
RECURSIVE LexGreater(_, _)
LexGreater(a, b) ==
    IF Len(a) = 0 THEN FALSE
    ELSE IF DigitValue(Head(a)) # DigitValue(Head(b))
         THEN DigitValue(Head(a)) > DigitValue(Head(b))
         ELSE LexGreater(Tail(a), Tail(b))

\* a > b for two numbers given by their digits without leading zeros
DecGreater(a, b) ==
    \/ Len(a) > Len(b)
    \/ Len(a) = Len(b) /\ LexGreater(a, b)

\* the value of a short digit text
RECURSIVE DigitsToInt(_)
DigitsToInt(d) ==
    IF Len(d) = 0 THEN 0
    ELSE 10 * DigitsToInt(SubSeq(d, 1, Len(d) - 1)) + DigitValue(d[Len(d)])

\* i64::MAX = 9223372036854775807
I64_MAX_DIGITS ==
    <<"9","2","2","3","3","7","2","0","3","6","8","5","4","7","7","5","8","0","7">>

\* lexeme.parse::<i64>().unwrap_or(0): the parse fails when the value does not
\* fit in an i64, and the value is then 0
ParseI64OrZero(lexeme) ==
    LET d == StripZeros(lexeme) IN
    IF DecGreater(d, I64_MAX_DIGITS) THEN << >> ELSE d

\* a lexer without the upper limit of literals
MutOutOfRange(value) == FALSE

\* value > 3999
OutOfRange(value) == DecGreater(value, <<"3","9","9","9">>)

read_arabic_number(src, l) ==
    LET e == ScanWhile(src, l, Digits)
        lexeme == Slice(src, l, e)
        span == SpanNew(l.pos, e.pos, l.line, l.column)
        value == ParseI64OrZero(lexeme)
    IN IF OutOfRange(value)
       THEN [lx |-> e,
             out |-> Err([kind |-> "NumberOutOfRange", value |-> value, span |-> span])]
       ELSE [lx |-> e,
             out |-> Ok(Token("ArabicLiteral", DigitsToInt(value), << >>, span, lexeme))]

\* a string scan that runs over the ends of lines
MutReadString(src, l) ==
    LET open == advance(l)
        e == ScanWhile(src, open, AllChars \ {"\""})
        content == Slice(src, open, e)
        close == advance(e)
    IN IF Peek(src, e) = "\""
       THEN [lx |-> close,
             out |-> Ok(Token("StringLiteral", 0, content,
                              SpanNew(l.pos, close.pos, close.line, l.column),
                              <<"\"">> \o content \o <<"\"">>))]
       ELSE [lx |-> e, out |-> Err([kind |-> "UnterminatedString", line |-> l.line])]

read_string(src, l) ==
    LET open == advance(l)
        e == ScanWhile(src, open, AllChars \ {"\"", "\n"})
        content == Slice(src, open, e)
        close == advance(e)
    IN IF Peek(src, e) = "\""
       THEN [lx |-> close,
             out |-> Ok(Token("StringLiteral", 0, content,
                              SpanNew(l.pos, close.pos, close.line, l.column),
                              <<"\"">> \o content \o <<"\"">>))]
       ELSE [lx |-> e, out |-> Err([kind |-> "UnterminatedString", line |-> l.line])]

\* a newline that leaves the column where it is
MutNewlineToken(src, l) ==
    LET e == advance(l) IN
    [lx |-> [pos |-> e.pos, line |-> l.line + 1, column |-> e.column],
     out |-> Ok(Token("Newline", 0, << >>,
                      SpanNew(l.pos, l.pos + 1, l.line, l.column), <<"\n">>))]

\* the '\n' arm of next_token
newline_token(src, l) ==
    LET e == advance(l) IN
    [lx |-> [pos |-> e.pos, line |-> l.line + 1, column |-> 1],
     out |-> Ok(Token("Newline", 0, << >>,
                      SpanNew(l.pos, l.pos + 1, l.line, l.column), <<"\n">>))]

next_token(src, l0) ==
    LET l == skip_whitespace(src, l0)
        ch == Peek(src, l)
    IN IF ch = NoChar THEN [lx |-> l, out |-> Ok(NoToken)]
       ELSE IF ch \in PunctChars THEN single_char_token(src, l)
       ELSE IF ch = "\"" THEN read_string(src, l)
       ELSE IF ch = "\n" THEN newline_token(src, l)
       ELSE IF ch \in NameStart THEN read_identifier_or_keyword(src, l)
       ELSE IF ch \in Digits THEN read_arabic_number(src, l)
       ELSE [lx |-> l,
             out |-> Err([kind |-> "UnexpectedCharacter", ch |-> ch,
                          line |-> l.line, column |-> l.column])]

\* the end-of-input token tokenize pushes
EofToken(l) == Token("Eof", 0, << >>, SpanPoint(l.pos, l.line, l.column), << >>)

\* the match of tokenize's loop: newlines and comments are skipped
MutKeep(tok) == tok.kind \notin {"Newline"}

Keep(tok) == tok.kind \notin {"Newline", "Comment"}

\* Lexer::tokenize as a function of the text
RECURSIVE TokenizeLoop(_, _, _)
TokenizeLoop(src, l, toks) ==
    LET r == next_token(src, l) IN
    IF ~r.out.ok THEN Err(r.out.err)
    ELSE IF r.out.val.kind = "None" THEN Ok(Append(toks, EofToken(r.lx)))
    ELSE TokenizeLoop(src, r.lx, IF Keep(r.out.val) THEN Append(toks, r.out.val) ELSE toks)

tokenize(src) == TokenizeLoop(src, LexerNew, << >>)

(***************************************************************************)
(* lexer/token.rs: TokenKind::name, parser/ast.rs                          *)
(***************************************************************************)
\* TokenKind::name, the text Display writes for a token kind
TokenName(kind) ==
    CASE kind = "Declara" -> "DECLARA" [] kind = "Est" -> "EST"
      [] kind = "Addius" -> "ADDIUS" [] kind = "Subtrahe" -> "SUBTRAHE"
      [] kind = "Multiplica" -> "MULTIPLICA" [] kind = "Divide" -> "DIVIDE"
      [] kind = "Scribe" -> "SCRIBE" [] kind = "Avtem" -> "AVTEM"
      [] kind = "Romaniza" -> "ROMANIZA" [] kind = "Arabiza" -> "ARABIZA"
      [] kind = "Exprime" -> "EXPRIME"
      [] kind = "ArabicLiteral" -> "numerus Arabicus"
      [] kind = "RomanLiteral" -> "numerus Romanus"
      [] kind = "StringLiteral" -> "string"
      [] kind = "Identifier" -> "identificator"
      [] kind = "LeftParen" -> "(" [] kind = "RightParen" -> ")"
      [] kind = "LeftBrace" -> "{" [] kind = "RightBrace" -> "}"
      [] kind = "Comma" -> "," [] kind = "Comment" -> "NOTA"
      [] kind = "Newline" -> "linea nova" [] OTHER -> "finis"

\* Span::merge: from the smaller start to the larger end
SpanMerge(a, b) ==
    [start |-> IF a.start <= b.start THEN a.start ELSE b.start,
     end |-> IF a.end >= b.end THEN a.end ELSE b.end,
     line |-> a.line, column |-> a.column]

(***************************************************************************)
(* parser/parser.rs: every function takes the token vector and the cursor  *)
(* `current` and returns the new cursor with its result                    *)
(***************************************************************************)
parser_peek(toks, cur) == toks[cur + 1]

\* self.tokens[self.current.saturating_sub(1)]
parser_previous(toks, cur) == toks[(IF cur > 0 THEN cur - 1 ELSE 0) + 1]

\* a parser that does not see the end of its input
MutIsAtEnd(toks, cur) == FALSE

is_at_end(toks, cur) == parser_peek(toks, cur).kind = "Eof"

\* Parser::advance: the cursor after the call (the call returns previous())
parser_advance(toks, cur) == IF ~is_at_end(toks, cur) THEN cur + 1 ELSE cur

PResult(cur, out) == [cur |-> cur, out |-> out]

expect_token(toks, cur, expected) ==
    IF parser_peek(toks, cur).kind = expected
    THEN PResult(parser_advance(toks, cur),
                 Ok(parser_previous(toks, parser_advance(toks, cur))))
    ELSE PResult(cur, Err([kind |-> "UnexpectedToken",
                           expected |-> TokenName(expected),
                           found |-> TokenName(parser_peek(toks, cur).kind),
                           span |-> parser_peek(toks, cur).span]))

expect_identifier(toks, cur) ==
    IF parser_peek(toks, cur).kind = "Identifier"
    THEN PResult(parser_advance(toks, cur), Ok(parser_peek(toks, cur).text))
    ELSE PResult(cur, Err([kind |-> "ExpectedIdentifier",
                           span |-> parser_peek(toks, cur).span]))

NumberLiteral(value, form, span) ==
    [kind |-> "NumberLiteral", value |-> value, original_form |-> form, span |-> span]

MutBinaryOp(left, operator, right) ==
    [kind |-> "BinaryOp", left |-> right, operator |-> operator, right |-> left,
     span |-> SpanMerge(left.span, right.span)]

BinaryOp(left, operator, right) ==
    [kind |-> "BinaryOp", left |-> left, operator |-> operator, right |-> right,
     span |-> SpanMerge(left.span, right.span)]

RECURSIVE parse_expression(_, _)
RECURSIVE parse_additive(_, _)
RECURSIVE additive_loop(_, _, _)
RECURSIVE parse_multiplicative(_, _)
RECURSIVE multiplicative_loop(_, _, _)
RECURSIVE parse_factor(_, _)
RECURSIVE parse_function_call(_, _, _)

parse_expression(toks, cur) == parse_additive(toks, cur)

parse_additive(toks, cur) ==
    LET l == parse_multiplicative(toks, cur) IN
    IF ~l.out.ok THEN l ELSE additive_loop(toks, l.cur, l.out.val)

\* while self.peek().kind.is_additive() { .. }
MutAdditiveLoop(toks, cur, left) ==
    IF parser_peek(toks, cur).kind \in {"Addius", "Subtrahe", "Multiplica", "Divide"}
    THEN LET operator == CASE parser_peek(toks, cur).kind = "Addius" -> "Add"
                           [] parser_peek(toks, cur).kind = "Subtrahe" -> "Subtract"
                           [] parser_peek(toks, cur).kind = "Multiplica" -> "Multiply"
                           [] OTHER -> "Divide"
             r == parse_factor(toks, parser_advance(toks, cur))
         IN IF ~r.out.ok THEN r
            ELSE additive_loop(toks, r.cur, BinaryOp(left, operator, r.out.val))
    ELSE PResult(cur, Ok(left))

additive_loop(toks, cur, left) ==
    IF parser_peek(toks, cur).kind \in {"Addius", "Subtrahe"}
    THEN LET operator == IF parser_peek(toks, cur).kind = "Addius"
                         THEN "Add" ELSE "Subtract"
             r == parse_multiplicative(toks, parser_advance(toks, cur))
         IN IF ~r.out.ok THEN r
            ELSE additive_loop(toks, r.cur, BinaryOp(left, operator, r.out.val))
    ELSE PResult(cur, Ok(left))

parse_multiplicative(toks, cur) ==
    LET l == parse_factor(toks, cur) IN
    IF ~l.out.ok THEN l ELSE multiplicative_loop(toks, l.cur, l.out.val)

\* while self.peek().kind.is_multiplicative() { .. }
multiplicative_loop(toks, cur, left) ==
    IF parser_peek(toks, cur).kind \in {"Multiplica", "Divide"}
    THEN LET operator == IF parser_peek(toks, cur).kind = "Multiplica"
                         THEN "Multiply" ELSE "Divide"
             r == parse_factor(toks, parser_advance(toks, cur))
         IN IF ~r.out.ok THEN r
            ELSE multiplicative_loop(toks, r.cur, BinaryOp(left, operator, r.out.val))
    ELSE PResult(cur, Ok(left))

parse_factor(toks, cur) ==
    LET token == parser_peek(toks, cur)
        next == parser_advance(toks, cur)
    IN CASE token.kind = "ArabicLiteral" ->
              PResult(next, Ok(NumberLiteral(token.num, "Arabic", token.span)))
         [] token.kind = "RomanLiteral" ->
              PResult(next, Ok(NumberLiteral(token.num, "Roman", token.span)))
         [] token.kind = "StringLiteral" ->
              PResult(next, Ok([kind |-> "StringLiteral", text |-> token.text,
                                span |-> token.span]))
         [] token.kind = "Identifier" ->
              PResult(next, Ok([kind |-> "Variable", name |-> token.text,
                                span |-> token.span]))
         [] token.kind = "LeftParen" ->
              LET inner == parse_expression(toks, next) IN
              IF ~inner.out.ok THEN inner
              ELSE LET close == expect_token(toks, inner.cur, "RightParen") IN
                   IF ~close.out.ok THEN close
                   ELSE PResult(close.cur,
                                Ok([kind |-> "Grouped", inner |-> inner.out.val,
                                    span |-> SpanMerge(token.span, close.out.val.span)]))
         [] token.kind = "Romaniza" -> parse_function_call(toks, cur, "Romaniza")
         [] token.kind = "Arabiza" -> parse_function_call(toks, cur, "Arabiza")
         [] token.kind = "Exprime" -> parse_function_call(toks, cur, "Exprime")
         [] OTHER ->
              PResult(cur, Err([kind |-> "ExpectedExpression",
                                after |-> IF cur > 0
                                          THEN TokenName(parser_previous(toks, cur).kind)
                                          ELSE "start",
                                span |-> token.span]))

parse_function_call(toks, cur, function) ==
    LET start == parser_peek(toks, cur).span
        open == expect_token(toks, parser_advance(toks, cur), "LeftParen")
    IN IF ~open.out.ok THEN open
       ELSE LET argument == parse_expression(toks, open.cur) IN
            IF ~argument.out.ok THEN argument
            ELSE LET end == expect_token(toks, argument.cur, "RightParen") IN
                 IF ~end.out.ok THEN end
                 ELSE PResult(end.cur,
                              Ok([kind |-> "FunctionCall", function |-> function,
                                  argument |-> argument.out.val,
                                  span |-> SpanMerge(start, end.out.val.span)]))

\* DECLARA <IDENT> EST <EXPR>
parse_declaration(toks, cur) ==
    LET start_span == parser_peek(toks, cur).span
        name == expect_identifier(toks, parser_advance(toks, cur))
    IN IF ~name.out.ok THEN name
       ELSE LET est == expect_token(toks, name.cur, "Est") IN
            IF ~est.out.ok THEN est
            ELSE LET value == parse_expression(toks, est.cur) IN
                 IF ~value.out.ok THEN value
                 ELSE PResult(value.cur,
                              Ok([kind |-> "Declaration", name |-> name.out.val,
                                  value |-> value.out.val,
                                  span |-> SpanMerge(start_span, value.out.val.span)]))

\* <IDENT> EST <EXPR>
parse_assignment(toks, cur) ==
    LET name_token == parser_peek(toks, cur)
        after == parser_advance(toks, cur)
    IN IF name_token.kind # "Identifier"
       THEN PResult(after, Err([kind |-> "ExpectedIdentifier", span |-> name_token.span]))
       ELSE LET est == expect_token(toks, after, "Est") IN
            IF ~est.out.ok THEN est
            ELSE LET value == parse_expression(toks, est.cur) IN
                 IF ~value.out.ok THEN value
                 ELSE PResult(value.cur,
                              Ok([kind |-> "Assignment", name |-> name_token.text,
                                  value |-> value.out.val,
                                  span |-> SpanMerge(name_token.span,
                                                     value.out.val.span)]))

\* SCRIBE(expression)
parse_print(toks, cur) ==
    LET start_span == parser_peek(toks, cur).span
        open == expect_token(toks, parser_advance(toks, cur), "LeftParen")
    IN IF ~open.out.ok THEN open
       ELSE LET value == parse_expression(toks, open.cur) IN
            IF ~value.out.ok THEN value
            ELSE LET end_token == expect_token(toks, value.cur, "RightParen") IN
                 IF ~end_token.out.ok THEN end_token
                 ELSE PResult(end_token.cur,
                              Ok([kind |-> "Print", value |-> value.out.val,
                                  span |-> SpanMerge(start_span,
                                                     end_token.out.val.span)]))

\* an AVTEM statement that leaves its token where it is
MutParseAvtem(toks, cur) ==
    PResult(cur, Ok([kind |-> "Avtem", span |-> parser_peek(toks, cur).span]))

parse_avtem(toks, cur) ==
    PResult(parser_advance(toks, cur),
            Ok([kind |-> "Avtem", span |-> parser_peek(toks, cur).span]))

parse_statement(toks, cur) ==
    LET token == parser_peek(toks, cur) IN
    CASE token.kind = "Declara" -> parse_declaration(toks, cur)
      [] token.kind = "Scribe" -> parse_print(toks, cur)
      [] token.kind = "Avtem" -> parse_avtem(toks, cur)
      [] token.kind = "Comment" ->
           PResult(parser_advance(toks, cur),
                   Ok([kind |-> "Comment", text |-> token.text, span |-> token.span]))
      [] token.kind = "Identifier" -> parse_assignment(toks, cur)
      [] token.kind = "Eof" -> PResult(cur, Err([kind |-> "UnexpectedEndOfInput"]))
      [] OTHER ->
           PResult(cur, Err([kind |-> "UnexpectedToken",
                             expected |-> "DECLARA, SCRIBE, AVTEM, or identifier",
                             found |-> TokenName(token.kind),
                             span |-> token.span]))

\* Parser::parse: while !self.is_at_end() { statements.push(self.parse_statement()?) }
RECURSIVE ParseLoop(_, _, _)
ParseLoop(toks, cur, statements) ==
    IF is_at_end(toks, cur) THEN Ok(statements)
    ELSE LET s == parse_statement(toks, cur) IN
         IF ~s.out.ok THEN Err(s.out.err)
         ELSE ParseLoop(toks, s.cur, Append(statements, s.out.val))

\* Parser::new(tokens).parse(); a Program is the sequence of its statements
parse(toks) == ParseLoop(toks, 0, << >>)

(***************************************************************************)
(* interpreter/environment.rs                                              *)
(***************************************************************************)
I32_MAX == 2147483647
I32_MIN == -2147483647 - 1

\* Value::Number, Value::String
Number(n) == [t |-> "Number", n |-> n]
String(s) == [t |-> "String", s |-> s]

\* the unit value of Ok(())
Unit == << >>

\* an output conversion that takes zero for a number too large
Mut_to_output_string(v) ==
    IF v.t = "String" THEN Ok(v.s)
    ELSE IF v.n < 0 THEN Err([kind |-> "NegativeRomanConversion", value |-> v.n])
    ELSE IF to_roman(v.n).ok THEN to_roman(v.n)
    ELSE Err([kind |-> "RomanOverflow", value |-> v.n])

\* Value::to_output_string
to_output_string(v) ==
    IF v.t = "String" THEN Ok(v.s)
    ELSE IF v.n <= 0 THEN Err([kind |-> "NegativeRomanConversion", value |-> v.n])
    ELSE IF v.n > ROMAN_MAX THEN Err([kind |-> "RomanOverflow", value |-> v.n])
    ELSE LET r == to_roman(v.n) IN
         IF r.ok THEN r ELSE Err([kind |-> "RomanOverflow", value |-> v.n])

\* Environment::new: no variable
EnvironmentNew == << >>

\* an insertion that forgets the other entries
MutInsert(e, name, value) == [k \in {name} |-> value]

\* HashMap::insert
Insert(e, name, value) ==
    [k \in DOMAIN e \cup {name} |-> IF k = name THEN value ELSE e[k]]

\* Environment::declare: the environment after the call and the call's result
MutDeclare(e, name, value) == [env |-> Insert(e, name, value), res |-> Ok(Unit)]

declare(e, name, value) ==
    IF name \in DOMAIN e
    THEN [env |-> e, res |-> Err([kind |-> "VariableAlreadyDeclared", name |-> name])]
    ELSE [env |-> Insert(e, name, value), res |-> Ok(Unit)]

\* Environment::assign
MutAssign(e, name, value) == [env |-> Insert(e, name, value), res |-> Ok(Unit)]

assign(e, name, value) ==
    IF name \notin DOMAIN e
    THEN [env |-> e, res |-> Err([kind |-> "UndefinedVariable", name |-> name])]
    ELSE [env |-> Insert(e, name, value), res |-> Ok(Unit)]

\* a lookup that refuses a number no Roman numeral can express
MutGet(e, name) ==
    IF name \notin DOMAIN e THEN Err([kind |-> "UndefinedVariable", name |-> name])
    ELSE IF e[name].t = "Number" /\ ~to_roman(e[name].n).ok
         THEN Err([kind |-> "RomanOverflow", value |-> e[name].n])
         ELSE Ok(e[name])

\* Environment::get
get(e, name) ==
    IF name \in DOMAIN e THEN Ok(e[name])
    ELSE Err([kind |-> "UndefinedVariable", name |-> name])

(***************************************************************************)
(* interpreter/evaluator.rs                                                *)
(***************************************************************************)
\* i32::to_string
RECURSIVE NatToDigits(_)
NatToDigits(n) ==
    IF n < 10 THEN <<SubSeq(<<"0","1","2","3","4","5","6","7","8","9">>, n + 1, n + 1)[1]>>
    ELSE Append(NatToDigits(n \div 10),
                SubSeq(<<"0","1","2","3","4","5","6","7","8","9">>,
                       (n % 10) + 1, (n % 10) + 1)[1])

\* the decimal digits of the magnitude, without a sign
MutI32ToString(n) ==
    IF n >= 0 THEN NatToDigits(n)
    ELSE IF n = I32_MIN THEN <<"2","1","4","7","4","8","3","6","4","8">>
    ELSE NatToDigits(-n)

i32_to_string(n) ==
    IF n >= 0 THEN NatToDigits(n)
    ELSE IF n = I32_MIN
         THEN <<"-","2","1","4","7","4","8","3","6","4","8">>
         ELSE <<"-">> \o NatToDigits(-n)

\* the i64 the integer-overflow error carries, *a as i64 op *b as i64, kept
\* as the operation and its two i32 operands
Wide(op, a, b) == [op |-> op, a |-> a, b |-> b]

\* The value of an i64 is a sign and a magnitude, the magnitude as its digits
\* in base 10000, least significant first and without leading zeros.
\* the magnitude of an i32 (n as i64, then its absolute value)
Magnitude(n) ==
    LET limbs(k) == <<k % 10000, (k \div 10000) % 10000, k \div 100000000>>
        all == IF n >= 0 THEN limbs(n)
               ELSE IF n = I32_MIN THEN <<3648, 4748, 21>>
               ELSE limbs(-n)
    IN  IF all[3] # 0 THEN all
        ELSE IF all[2] # 0 THEN SubSeq(all, 1, 2)
        ELSE IF all[1] # 0 THEN SubSeq(all, 1, 1)
        ELSE << >>

Limb(x, i) == IF i <= Len(x) THEN x[i] ELSE 0

\* x + y on magnitudes, from the i-th digit on
RECURSIVE MagAdd(_, _, _, _)
MagAdd(x, y, i, carry) ==
    IF i > Len(x) /\ i > Len(y)
    THEN (IF carry > 0 THEN <<carry>> ELSE << >>)
    ELSE LET sum == Limb(x, i) + Limb(y, i) + carry
         IN  <<sum % 10000>> \o MagAdd(x, y, i + 1, sum \div 10000)

\* x < y on magnitudes
MagLess(x, y) ==
    \/ Len(x) < Len(y)
    \/ /\ Len(x) = Len(y)
       /\ \E i \in 1..Len(x) :
              /\ x[i] < y[i]
              /\ \A j \in (i + 1)..Len(x) : x[j] = y[j]

RECURSIVE TrimZeros(_)
TrimZeros(x) ==
    IF Len(x) > 0 /\ x[Len(x)] = 0 THEN TrimZeros(SubSeq(x, 1, Len(x) - 1)) ELSE x

\* x - y on magnitudes with y <= x, from the i-th digit on
RECURSIVE MagSub(_, _, _, _)
MagSub(x, y, i, borrow) ==
    IF i > Len(x) THEN << >>
    ELSE LET diff == Limb(x, i) - Limb(y, i) - borrow
         IN  IF diff < 0 THEN <<diff + 10000>> \o MagSub(x, y, i + 1, 1)
             ELSE <<diff>> \o MagSub(x, y, i + 1, 0)

\* x * y on magnitudes, from the k-th digit of the product on
RECURSIVE MagMul(_, _, _, _)
MagMul(x, y, k, carry) ==
    IF k > Len(x) + Len(y) THEN << >>
    ELSE LET RECURSIVE column(_)
             column(i) == IF i > k THEN 0
                          ELSE Limb(x, i) * Limb(y, k + 1 - i) + column(i + 1)
             sum == column(1) + carry
         IN  <<sum % 10000>> \o MagMul(x, y, k + 1, sum \div 10000)

I64(neg, mag) == [neg |-> neg /\ mag # << >>, mag |-> mag]

\* a as i64 + b as i64 where the sign of b is negated when `minus`
I64Sum(a, b, minus) ==
    LET x == Magnitude(a)
        y == Magnitude(b)
        xneg == a < 0
        yneg == IF minus THEN b > 0 ELSE b < 0
    IN  IF xneg = yneg THEN I64(xneg, MagAdd(x, y, 1, 0))
        ELSE IF MagLess(x, y) THEN I64(yneg, TrimZeros(MagSub(y, x, 1, 0)))
        ELSE I64(xneg, TrimZeros(MagSub(x, y, 1, 0)))

\* the value of *a as i64 op *b as i64, which is exact, the result of an
\* operation on two i32 being inside the i64 range
I64Value(w) ==
    CASE w.op = "+" -> I64Sum(w.a, w.b, FALSE)
      [] w.op = "-" -> I64Sum(w.a, w.b, TRUE)
      [] OTHER -> I64((w.a < 0) # (w.b < 0),
                      TrimZeros(MagMul(Magnitude(w.a), Magnitude(w.b), 1, 0)))

\* i32::checked_add(a, b).is_some()
AddFits(a, b) ==
    IF b >= 0 THEN a <= I32_MAX - b ELSE a >= I32_MIN - b

\* i32::checked_sub(a, b).is_some()
SubFits(a, b) ==
    IF b >= 0 THEN a >= I32_MIN + b ELSE a <= I32_MAX + b

\* the quotient of a by b rounded toward zero, for b > 0
TruncDivPos(a, b) ==
    IF a >= 0 THEN a \div b
    ELSE (a \div b) + (IF a % b # 0 THEN 1 ELSE 0)

\* a checked multiplication that only accepts products of positive numbers
MutMulFits(a, b) == a = 0 \/ b = 0 \/ (a > 0 /\ b > 0 /\ a <= I32_MAX \div b)

\* i32::checked_mul(a, b).is_some()
MulFits(a, b) ==
    IF a = 0 \/ b = 0 THEN TRUE
    ELSE IF a > 0 /\ b > 0 THEN a <= I32_MAX \div b
    ELSE IF a > 0 /\ b < 0 THEN b >= TruncDivPos(I32_MIN, a)
    ELSE IF a < 0 /\ b > 0 THEN a >= TruncDivPos(I32_MIN, b)
    ELSE a # I32_MIN /\ b # I32_MIN /\ (-a) <= I32_MAX \div (-b)

\* a / b of two i32: the quotient rounded toward zero; i32::MIN / -1 overflows
\* and the division panics
DivPanics(a, b) == a = I32_MIN /\ b = -1

i32_div(a, b) ==
    IF b > 0 THEN TruncDivPos(a, b)
    ELSE IF b = I32_MIN THEN (IF a = I32_MIN THEN 1 ELSE 0)
    ELSE -TruncDivPos(a, -b)

\* n.to_string() whatever the number
MutRomanOrDecimal(n) == i32_to_string(n)

\* to_roman(n).unwrap_or_else(|_| n.to_string())
RomanOrDecimal(n) == IF to_roman(n).ok THEN to_roman(n).val ELSE i32_to_string(n)

\* a type-mismatch error that does not say what was expected
MutTypeMismatch(operation, expected, span) ==
    Err([kind |-> "TypeMismatch", operation |-> operation, expected |-> "",
         span |-> span])

TypeMismatch(operation, expected, span) ==
    Err([kind |-> "TypeMismatch", operation |-> operation, expected |-> expected,
         span |-> span])

\* the match on the operator of a BinaryOp, both operands evaluated
BinaryOpValue(operator, l, r, span) ==
    LET numbers == l.t = "Number" /\ r.t = "Number" IN
    CASE operator = "Add" ->
           IF numbers
           THEN IF AddFits(l.n, r.n) THEN Ok(Number(l.n + r.n))
                ELSE Err([kind |-> "IntegerOverflow", wide |-> Wide("+", l.n, r.n)])
           ELSE IF l.t = "String" /\ r.t = "String" THEN Ok(String(l.s \o r.s))
           ELSE IF l.t = "String" THEN Ok(String(l.s \o RomanOrDecimal(r.n)))
           ELSE Ok(String(RomanOrDecimal(l.n) \o r.s))
      [] operator = "Subtract" ->
           IF numbers
           THEN IF SubFits(l.n, r.n) THEN Ok(Number(l.n - r.n))
                ELSE Err([kind |-> "IntegerOverflow", wide |-> Wide("-", l.n, r.n)])
           ELSE TypeMismatch("SUBTRAHE", "numbers", span)
      [] operator = "Multiply" ->
           IF numbers
           THEN IF MulFits(l.n, r.n) THEN Ok(Number(l.n * r.n))
                ELSE Err([kind |-> "IntegerOverflow", wide |-> Wide("*", l.n, r.n)])
           ELSE TypeMismatch("MULTIPLICA", "numbers", span)
      [] OTHER ->
           IF numbers
           THEN IF r.n = 0 THEN Err([kind |-> "DivisionByZero", span |-> span])
                ELSE IF DivPanics(l.n, r.n) THEN Err([kind |-> "PANIC"])
                ELSE Ok(Number(i32_div(l.n, r.n)))
           ELSE TypeMismatch("DIVIDE", "numbers", span)

\* lenient built-ins: a String passes through, a Number is rendered as ADDIUS
\* renders it
MutFunctionCallValue(function, arg_value, span) ==
    IF arg_value.t = "String" THEN Ok(arg_value)
    ELSE Ok(String(RomanOrDecimal(arg_value.n)))

\* the match on the function of a FunctionCall, the argument evaluated
FunctionCallValue(function, arg_value, span) ==
    CASE function = "Romaniza" ->
           IF arg_value.t = "Number"
           THEN IF to_roman(arg_value.n).ok THEN Ok(String(to_roman(arg_value.n).val))
                ELSE Err([kind |-> "RomanOverflow", value |-> arg_value.n])
           ELSE TypeMismatch("ROMANIZA", "number", span)
      [] function = "Arabiza" ->
           IF arg_value.t = "Number" THEN Ok(String(i32_to_string(arg_value.n)))
           ELSE TypeMismatch("ARABIZA", "number", span)
      [] OTHER -> Ok(arg_value)

\* Interpreter::evaluate_expression
RECURSIVE evaluate_expression(_, _)
evaluate_expression(e, expr) ==
    CASE expr.kind = "NumberLiteral" -> Ok(Number(expr.value))
      [] expr.kind = "StringLiteral" -> Ok(String(expr.text))
      [] expr.kind = "Variable" -> get(e, expr.name)
      [] expr.kind = "BinaryOp" ->
           LET l == evaluate_expression(e, expr.left) IN
           IF ~l.ok THEN l
           ELSE LET r == evaluate_expression(e, expr.right) IN
                IF ~r.ok THEN r
                ELSE BinaryOpValue(expr.operator, l.val, r.val, expr.span)
      [] expr.kind = "Grouped" -> evaluate_expression(e, expr.inner)
      [] OTHER ->
           LET arg_value == evaluate_expression(e, expr.argument) IN
           IF ~arg_value.ok THEN arg_value
           ELSE FunctionCallValue(expr.function, arg_value.val, expr.span)

\* the state of an Interpreter after a call, with the call's result
\* (printed: the lines the call wrote with println!)
IResult(e, o, res, lines) == [env |-> e, output |-> o, res |-> res, printed |-> lines]

\* a Declaration that looks at the name before it evaluates the initializer
MutExecuteStatement(e, o, stmt) ==
    CASE stmt.kind = "Declaration" ->
           IF stmt.name \in DOMAIN e
           THEN IResult(e, o, Err([kind |-> "VariableAlreadyDeclared",
                                   name |-> stmt.name]), << >>)
           ELSE LET val == evaluate_expression(e, stmt.value) IN
                IF ~val.ok THEN IResult(e, o, val, << >>)
                ELSE IResult(Insert(e, stmt.name, val.val), o, Ok(Unit), << >>)
      [] stmt.kind = "Assignment" ->
           LET val == evaluate_expression(e, stmt.value) IN
           IF ~val.ok THEN IResult(e, o, val, << >>)
           ELSE LET a == assign(e, stmt.name, val.val) IN IResult(a.env, o, a.res, << >>)
      [] stmt.kind = "Print" ->
           LET val == evaluate_expression(e, stmt.value) IN
           IF ~val.ok THEN IResult(e, o, val, << >>)
           ELSE LET line == to_output_string(val.val) IN
                IF ~line.ok THEN IResult(e, o, line, << >>)
                ELSE IResult(e, Append(o, line.val), Ok(Unit), <<line.val>>)
      [] OTHER -> IResult(e, o, Ok(Unit), << >>)

\* Interpreter::execute_statement on the interpreter (e, o)
execute_statement(e, o, stmt) ==
    CASE stmt.kind = "Declaration" ->
           LET val == evaluate_expression(e, stmt.value) IN
           IF ~val.ok THEN IResult(e, o, val, << >>)
           ELSE LET d == declare(e, stmt.name, val.val) IN IResult(d.env, o, d.res, << >>)
      [] stmt.kind = "Assignment" ->
           LET val == evaluate_expression(e, stmt.value) IN
           IF ~val.ok THEN IResult(e, o, val, << >>)
           ELSE LET a == assign(e, stmt.name, val.val) IN IResult(a.env, o, a.res, << >>)
      [] stmt.kind = "Print" ->
           LET val == evaluate_expression(e, stmt.value) IN
           IF ~val.ok THEN IResult(e, o, val, << >>)
           ELSE LET line == to_output_string(val.val) IN
                IF ~line.ok THEN IResult(e, o, line, << >>)
                ELSE IResult(e, Append(o, line.val), Ok(Unit), <<line.val>>)
      [] OTHER -> IResult(e, o, Ok(Unit), << >>)

\* self.output.clear()
MutClear(o) == o

clear(o) == << >>

\* self.output.pop(): Some(last line) or None, and the vector that is left
pop(o) ==
    IF Len(o) = 0 THEN [popped |-> << >>, rest |-> o]
    ELSE [popped |-> <<o[Len(o)]>>, rest |-> SubSeq(o, 1, Len(o) - 1)]

\* the `?` of Interpreter::run returns the error and leaves the environment
\* as the statements left it
MutEnvOnError(entry, now) == entry

EnvOnError(entry, now) == now

\* no program loaded
NoProgram == [stmts |-> << >>, text |-> << >>, parsed |-> Err([kind |-> "NotCalled"])]

(***************************************************************************)
(* Codec driver: the inputs of test_roundtrip and of from_roman's callers  *)
(***************************************************************************)
RomanAlphabet == RomanLetters \cup {"i", "x", "A"}

SeqsUpTo(S, n) == UNION {[1..k -> S] : k \in 0..n}

IntInputs == ((1 - IntSlack)..(ROMAN_MAX + IntSlack)) \cup {I32_MIN, I32_MAX}

StrInputs == SeqsUpTo(RomanAlphabet, MaxRomanLen) \cup SeqsUpTo({"C","M"}, MaxHighLen)

NoResult == Err([kind |-> "NotCalled"])

NoCall == [op |-> "none", name |-> << >>, value |-> Number(0)]

RunOff ==
    /\ rpc = "off" /\ mode = "none" /\ loaded = NoProgram /\ prog = << >> /\ idx = 0
    /\ output = << >> /\ result = NoResult /\ entryEnv = EnvironmentNew
    /\ done = << >> /\ printed = << >> /\ older = {} /\ declaredOk = {}

EnvOff ==
    /\ env = EnvironmentNew /\ prevEnv = EnvironmentNew
    /\ envCall = NoCall /\ envOut = NoResult

\* a chain without parentheses
NoGroup == [from |-> 0, to |-> 0]

ParserIdle == ptokens = << >> /\ pcurrent = 0 /\ pstatements = << >> /\ pbefore = 0

ParseOff ==
    /\ ppc = "off" /\ chain = [ops |-> << >>, group |-> NoGroup] /\ pout = NoResult
    /\ ParserIdle

\* no statement executed yet
NoStatement == [kind |-> "None"]

EvalOff == epc = "off" /\ evalStmt = NoStatement /\ evalOut = NoResult

CodecOff ==
    cpc = "off" /\ num = 0 /\ rom = NoResult /\ str = << >> /\ dec = NoResult

LexOff ==
    /\ lpc = "off" /\ input = << >> /\ lx = LexerNew /\ lxPrev = LexerNew
    /\ lastTok = NoToken /\ tokens = << >> /\ lexres = NoResult

CodecInit ==
    /\ LexOff /\ EnvOff /\ RunOff /\ ParseOff /\ EvalOff
    /\ rom = NoResult
    /\ dec = NoResult
    /\ \/ cpc = "int" /\ num \in IntInputs /\ str = << >>
       \/ cpc = "str" /\ num = 0 /\ str \in StrInputs

\* let roman = to_roman(n)
Encode ==
    /\ cpc = "int"
    /\ rom' = to_roman(num)
    /\ str' = IF rom'.ok THEN rom'.val ELSE str
    /\ cpc' = IF rom'.ok THEN "encoded" ELSE "failed"
    /\ UNCHANGED <<num, dec>>
    /\ UNCHANGED <<lexVars, envVars, runVars, parseVars, evalVars>>

\* let back = from_roman(&roman)
Decode ==
    /\ cpc \in {"encoded", "str"}
    /\ dec' = from_roman(str)
    /\ cpc' = IF cpc = "encoded" THEN "roundtrip" ELSE "decoded"
    /\ UNCHANGED <<num, rom, str>>
    /\ UNCHANGED <<lexVars, envVars, runVars, parseVars, evalVars>>

CodecNext == Encode \/ Decode

SpecCodec == CodecInit /\ [][CodecNext]_vars

(***************************************************************************)
(* Lexer driver: Lexer::new(input) then tokenize(), one next_token call    *)
(* per step                                                                *)
(***************************************************************************)
LexPieces ==
    { <<"I">>, <<"V">>, <<"X">>, <<"M","M","M","C","M","C">>, <<"x">>,
      <<"E","S","T">>, <<"N","O","T","A">>, <<":">>, <<"(">>, <<"{">>,
      <<"\"">>,
      <<" ">>, <<"\n">>, <<"0">>, <<"3","9","9","9">>, <<"4","0","0","0">>,
      I64_MAX_DIGITS }

RECURSIVE Concat(_)
Concat(ps) == IF Len(ps) = 0 THEN << >> ELSE Head(ps) \o Concat(Tail(ps))

\* the source texts: up to MaxPieces pieces written one after the other
Sources == {Concat(ps) : ps \in SeqsUpTo(LexPieces, MaxPieces)}

LexInit ==
    /\ CodecOff /\ EnvOff /\ RunOff /\ ParseOff /\ EvalOff
    /\ lpc = "scan"
    /\ input \in Sources
    /\ lx = LexerNew
    /\ lxPrev = LexerNew
    /\ lastTok = NoToken
    /\ tokens = << >>
    /\ lexres = NoResult

\* the first character next_token looks at
StartChar == Peek(input, skip_whitespace(input, lx))

\* one turn of tokenize's loop, next_token having returned r
TokenizeStep(r) ==
    /\ lxPrev' = lx
    /\ lx' = r.lx
    /\ UNCHANGED input
    /\ IF r.out.ok
       THEN /\ lastTok' = r.out.val
            /\ tokens' = IF Keep(r.out.val) THEN Append(tokens, r.out.val) ELSE tokens
            /\ UNCHANGED <<lpc, lexres>>
       ELSE /\ lexres' = Err(r.out.err)
            /\ lpc' = "done"
            /\ lastTok' = NoToken
            /\ UNCHANGED tokens

LexSingleChar ==
    /\ lpc = "scan" /\ StartChar \in PunctChars
    /\ TokenizeStep(next_token(input, lx))
    /\ UNCHANGED <<codecVars, envVars, runVars, parseVars, evalVars>>

LexString ==
    /\ lpc = "scan" /\ StartChar = "\""
    /\ TokenizeStep(next_token(input, lx))
    /\ UNCHANGED <<codecVars, envVars, runVars, parseVars, evalVars>>

LexNewline ==
    /\ lpc = "scan" /\ StartChar = "\n"
    /\ TokenizeStep(next_token(input, lx))
    /\ UNCHANGED <<codecVars, envVars, runVars, parseVars, evalVars>>

LexName ==
    /\ lpc = "scan" /\ StartChar \in NameStart
    /\ TokenizeStep(next_token(input, lx))
    /\ UNCHANGED <<codecVars, envVars, runVars, parseVars, evalVars>>

LexNumber ==
    /\ lpc = "scan" /\ StartChar \in Digits
    /\ TokenizeStep(next_token(input, lx))
    /\ UNCHANGED <<codecVars, envVars, runVars, parseVars, evalVars>>

LexUnexpected ==
    /\ lpc = "scan" /\ StartChar # NoChar
    /\ StartChar \notin PunctChars \cup NameStart \cup Digits \cup {"\"", "\n"}
    /\ TokenizeStep(next_token(input, lx))
    /\ UNCHANGED <<codecVars, envVars, runVars, parseVars, evalVars>>

\* next_token returned None: push the end-of-input token and return the vector
LexEnd ==
    /\ lpc = "scan" /\ StartChar = NoChar
    /\ lxPrev' = lx
    /\ lx' = next_token(input, lx).lx
    /\ lastTok' = NoToken
    /\ tokens' = Append(tokens, EofToken(lx'))
    /\ lexres' = Ok(tokens')
    /\ lpc' = "done"
    /\ UNCHANGED input
    /\ UNCHANGED <<codecVars, envVars, runVars, parseVars, evalVars>>

LexNext ==
    \/ LexSingleChar \/ LexString \/ LexNewline \/ LexName
    \/ LexNumber \/ LexUnexpected \/ LexEnd

SpecLex == LexInit /\ [][LexNext]_vars

(***************************************************************************)
(* Environment driver: any sequence of declare, assign and get calls       *)
(***************************************************************************)
VarNames == { <<"X">>, <<"Y">> }

EnvValues == { Number(0), Number(1), String(<<"a">>) }

EnvInit ==
    /\ CodecOff /\ LexOff /\ RunOff /\ ParseOff /\ EvalOff
    /\ env = EnvironmentNew
    /\ prevEnv = EnvironmentNew
    /\ envCall = NoCall
    /\ envOut = NoResult

EnvDeclare ==
    \E name \in VarNames, value \in EnvValues :
        /\ envCall' = [op |-> "declare", name |-> name, value |-> value]
        /\ prevEnv' = env
        /\ env' = declare(env, name, value).env
        /\ envOut' = declare(env, name, value).res
        /\ UNCHANGED <<codecVars, lexVars, runVars, parseVars, evalVars>>

EnvAssign ==
    \E name \in VarNames, value \in EnvValues :
        /\ envCall' = [op |-> "assign", name |-> name, value |-> value]
        /\ prevEnv' = env
        /\ env' = assign(env, name, value).env
        /\ envOut' = assign(env, name, value).res
        /\ UNCHANGED <<codecVars, lexVars, runVars, parseVars, evalVars>>

EnvGet ==
    \E name \in VarNames :
        /\ envCall' = [op |-> "get", name |-> name, value |-> Number(0)]
        /\ prevEnv' = env
        /\ env' = env
        /\ envOut' = get(env, name)
        /\ UNCHANGED <<codecVars, lexVars, runVars, parseVars, evalVars>>

EnvNext == EnvDeclare \/ EnvAssign \/ EnvGet

SpecEnv == EnvInit /\ [][EnvNext]_vars

(***************************************************************************)
(* Interpreter driver: one Interpreter, called again and again.  A call is *)
(* run_program's lex, parse and Interpreter::run (one statement per step), *)
(* or Interpreter::execute on one statement.                               *)
(***************************************************************************)
X_EST_0 == <<"X"," ","E","S","T"," ","0">>

StmtTexts ==
    { <<"D","E","C","L","A","R","A"," ","X"," ","E","S","T"," ","1">>,
      <<"D","E","C","L","A","R","A"," ","X"," ","E","S","T"," ","I","I">>,
      X_EST_0,
      <<"D","E","C","L","A","R","A"," ","Y"," ","E","S","T"," ","X">>,
      <<"S","C","R","I","B","E","(","X",")">>,
      <<"A","V","T","E","M">> }

\* DECLARA X EST 2000000000 ADDIUS 2000000000
TwoBillionTwice ==
    <<"D","E","C","L","A","R","A"," ","X"," ","E","S","T"," ",
      "2","0","0","0","0","0","0","0","0","0"," ","A","D","D","I","U","S"," ",
      "2","0","0","0","0","0","0","0","0","0">>

\* texts that do not lex or do not parse
BadTexts ==
    { <<"E","S","T">>, <<"X"," ","E","S","T">>, <<"4","0","0","0">>,
      <<"S","C","R","I","B","E","(","X">>, TwoBillionTwice }

\* the statements of a source text, one per line
RECURSIVE JoinLines(_)
JoinLines(ss) ==
    IF Len(ss) = 0 THEN << >>
    ELSE IF Len(ss) = 1 THEN ss[1]
    ELSE ss[1] \o <<"\n">> \o JoinLines(Tail(ss))

\* run_program: Lexer::new(source).tokenize()?, Parser::new(tokens).parse()?
lex_and_parse(text) ==
    LET t == tokenize(text) IN IF ~t.ok THEN t ELSE parse(t.val)

LoadProgram(ss) ==
    [stmts |-> ss, text |-> JoinLines(ss), parsed |-> lex_and_parse(JoinLines(ss))]

\* a program that divides i32::MIN by -1, both computed from literals
MinByMinusOne ==
    <<"S","C","R","I","B","E","(","(","0"," ","S","U","B","T","R","A","H","E"," ",
      "2","0","4","8",")"," ","M","U","L","T","I","P","L","I","C","A"," ",
      "1","0","2","4"," ","M","U","L","T","I","P","L","I","C","A"," ","1","0","2","4",
      " ","D","I","V","I","D","E"," ","(","0"," ","S","U","B","T","R","A","H","E"," ",
      "1",")",")">>

Programs ==
    {LoadProgram(ss) : ss \in SeqsUpTo(StmtTexts, MaxStmts)}
        \cup {LoadProgram(<<t>>) : t \in BadTexts}
        \cup {LoadProgram(<<MinByMinusOne>>)}

\* i32::MIN / -1 overflows: the division panics and the call does not return
Panicked(res) == ~res.ok /\ res.err.kind = "PANIC"

\* the statements Interpreter::execute is called with
Statements ==
    {LoadProgram(<<t>>).parsed.val[1] : t \in StmtTexts}
        \cup {[kind |-> "Comment", text |-> <<"n">>, span |-> SpanNew(0, 7, 1, 1)]}

RunInit ==
    /\ CodecOff /\ LexOff /\ ParseOff /\ EvalOff
    /\ rpc = "idle" /\ mode = "none" /\ loaded = NoProgram /\ prog = << >> /\ idx = 0
    /\ env = EnvironmentNew
    /\ output = << >>
    /\ result = NoResult
    /\ entryEnv = EnvironmentNew /\ prevEnv = EnvironmentNew
    /\ envCall = NoCall /\ envOut = NoResult
    /\ done = << >> /\ printed = << >> /\ older = {} /\ declaredOk = {}

\* the names whose Declaration statement returned Ok
DeclaredBy(stmt, res) ==
    IF stmt.kind = "Declaration" /\ res.ok THEN {stmt.name} ELSE {}

\* lexing or parsing fails: the interpreter is not called
LoadFails ==
    \E p \in Programs :
        /\ rpc = "idle" /\ ~p.parsed.ok
        /\ rpc' = "returned" /\ mode' = "load"
        /\ loaded' = p
        /\ result' = p.parsed
        /\ UNCHANGED <<prog, idx, env, output, entryEnv, prevEnv, done, printed,
                       older, declaredOk>>
        /\ UNCHANGED <<codecVars, lexVars, envCall, envOut, parseVars, evalVars>>

\* Interpreter::run is entered: self.output.clear()
RunEnter ==
    \E p \in Programs :
        /\ rpc = "idle" /\ p.parsed.ok
        /\ rpc' = "run" /\ mode' = "run"
        /\ loaded' = p
        /\ prog' = p.parsed.val
        /\ idx' = 1
        /\ output' = clear(output)
        /\ entryEnv' = env /\ prevEnv' = env
        /\ done' = << >> /\ printed' = << >>
        /\ older' = declaredOk
        /\ UNCHANGED <<env, result, declaredOk>>
        /\ UNCHANGED <<codecVars, lexVars, envCall, envOut, parseVars, evalVars>>

\* self.execute_statement(statement)? returns Ok: on to the next statement
RunStatementOk ==
    LET r == execute_statement(env, output, prog[idx]) IN
    /\ rpc = "run" /\ idx <= Len(prog) /\ r.res.ok
    /\ prevEnv' = env
    /\ env' = r.env
    /\ output' = r.output
    /\ printed' = printed \o r.printed
    /\ done' = Append(done, [stmt |-> prog[idx], res |-> r.res])
    /\ declaredOk' = declaredOk \cup DeclaredBy(prog[idx], r.res)
    /\ idx' = idx + 1
    /\ UNCHANGED <<rpc, mode, loaded, prog, result, entryEnv, older>>
    /\ UNCHANGED <<codecVars, lexVars, envCall, envOut, parseVars, evalVars>>

\* self.execute_statement(statement)? returns Err: run returns the error
RunStatementErr ==
    LET r == execute_statement(env, output, prog[idx]) IN
    /\ rpc = "run" /\ idx <= Len(prog) /\ ~r.res.ok /\ ~Panicked(r.res)
    /\ prevEnv' = env
    /\ env' = EnvOnError(entryEnv, r.env)
    /\ output' = r.output
    /\ printed' = printed \o r.printed
    /\ done' = Append(done, [stmt |-> prog[idx], res |-> r.res])
    /\ result' = r.res
    /\ rpc' = "returned"
    /\ UNCHANGED <<mode, loaded, prog, idx, entryEnv, older, declaredOk>>
    /\ UNCHANGED <<codecVars, lexVars, envCall, envOut, parseVars, evalVars>>

\* self.execute_statement(statement) panics: run does not return
RunPanic ==
    LET r == execute_statement(env, output, prog[idx]) IN
    /\ rpc = "run" /\ idx <= Len(prog) /\ Panicked(r.res)
    /\ rpc' = "aborted"
    /\ UNCHANGED <<mode, loaded, prog, idx, env, output, result, entryEnv, prevEnv,
                   done, printed, older, declaredOk>>
    /\ UNCHANGED <<codecVars, lexVars, envCall, envOut, parseVars, evalVars>>

\* the loop is over: Ok(self.output.clone())
RunReturn ==
    /\ rpc = "run" /\ idx > Len(prog)
    /\ result' = Ok(output)
    /\ rpc' = "returned"
    /\ UNCHANGED <<mode, loaded, prog, idx, env, output, entryEnv, prevEnv, done,
                   printed, older, declaredOk>>
    /\ UNCHANGED <<codecVars, lexVars, envCall, envOut, parseVars, evalVars>>

\* Interpreter::execute(statement): clear, execute_statement, Ok(self.output.pop())
Execute ==
    \E stmt \in Statements :
        LET r == execute_statement(env, clear(output), stmt) IN
        /\ rpc = "idle"
        /\ rpc' = "returned" /\ mode' = "execute"
        /\ loaded' = NoProgram
        /\ prog' = <<stmt>>
        /\ idx' = 1
        /\ entryEnv' = env /\ prevEnv' = env
        /\ older' = declaredOk
        /\ env' = r.env
        /\ printed' = r.printed
        /\ done' = <<[stmt |-> stmt, res |-> r.res]>>
        /\ declaredOk' = declaredOk \cup DeclaredBy(stmt, r.res)
        /\ IF r.res.ok
           THEN /\ result' = Ok(pop(r.output).popped)
                /\ output' = pop(r.output).rest
           ELSE /\ result' = r.res
                /\ output' = r.output
        /\ UNCHANGED <<codecVars, lexVars, envCall, envOut, parseVars, evalVars>>

\* the caller drops what the call returned
Drop ==
    /\ rpc = "returned"
    /\ rpc' = "idle" /\ mode' = "none" /\ loaded' = NoProgram /\ prog' = << >>
    /\ idx' = 0 /\ result' = NoResult
    /\ entryEnv' = EnvironmentNew /\ prevEnv' = EnvironmentNew
    /\ done' = << >> /\ printed' = << >> /\ older' = {}
    /\ UNCHANGED <<env, output, declaredOk>>
    /\ UNCHANGED <<codecVars, lexVars, envCall, envOut, parseVars, evalVars>>

RunNext ==
    \/ LoadFails \/ RunEnter \/ RunStatementOk \/ RunStatementErr \/ RunPanic
    \/ RunReturn \/ Execute \/ Drop

SpecRun == RunInit /\ [][RunNext]_vars

(***************************************************************************)
(* Parser driver: the statement `DECLARA R EST <expression>` is lexed and  *)
(* parsed, the expression being a chain of operands joined by operators,   *)
(* with or without one parenthesized run of operands                       *)
(***************************************************************************)
Operators == {"Add", "Subtract", "Multiply", "Divide"}

\* the keyword of an operator
OperatorWord(operator) ==
    CASE operator = "Add" -> <<"A","D","D","I","U","S">>
      [] operator = "Subtract" -> <<"S","U","B","T","R","A","H","E">>
      [] operator = "Multiply" -> <<"M","U","L","T","I","P","L","I","C","A">>
      [] OTHER -> <<"D","I","V","I","D","E">>

\* the operand written at the i-th place of a chain
OperandTexts == << <<"A">>, <<"B">>, <<"C">>, <<"I","V">>, <<"7">>, <<"x">> >>

OperandText(i) == OperandTexts[((i - 1) % Len(OperandTexts)) + 1]

\* the groups of a chain of n operators: operands from..to in parentheses
Groups(n) == {g \in [from : 1..n, to : 2..(n + 1)] : g.from < g.to}

FlatChains ==
    {[ops |-> o, group |-> NoGroup] : o \in SeqsUpTo(Operators, MaxOps) \ {<< >>}}

GroupedChains ==
    UNION {{[ops |-> o, group |-> g] : g \in Groups(Len(o))} :
              o \in SeqsUpTo(Operators, MaxOps) \ {<< >>}}

\* the text of the operands k.. of a chain
RECURSIVE ChainText(_, _)
ChainText(c, k) ==
    (IF k = c.group.from THEN <<"(">> ELSE << >>)
        \o OperandText(k)
        \o (IF k = c.group.to THEN <<")">> ELSE << >>)
        \o (IF k > Len(c.ops) THEN << >>
            ELSE <<" ">> \o OperatorWord(c.ops[k]) \o <<" ">> \o ChainText(c, k + 1))

StatementText(c) ==
    <<"D","E","C","L","A","R","A"," ","R"," ","E","S","T"," ">> \o ChainText(c, 1)

Chains == FlatChains \cup GroupedChains

\* Lexer::new(input).tokenize() and Parser::new(tokens).parse() on the
\* statement of every chain
ParsedChains == {[chain |-> c, parsed |-> lex_and_parse(StatementText(c))] : c \in Chains}

ParseInit ==
    /\ CodecOff /\ LexOff /\ EnvOff /\ RunOff /\ EvalOff
    /\ ppc = "ready"
    /\ chain \in Chains
    /\ pout = NoResult
    /\ ParserIdle

\* a chain without parentheses is lexed and parsed
ParseFlat ==
    \E p \in ParsedChains :
        /\ ppc = "ready" /\ chain.group = NoGroup /\ p.chain = chain
        /\ pout' = p.parsed
        /\ ppc' = "parsed"
        /\ UNCHANGED <<chain, ptokens, pcurrent, pstatements, pbefore>>
        /\ UNCHANGED <<codecVars, lexVars, envVars, runVars, evalVars>>

\* the same on a chain with parentheses
ParseGrouped ==
    \E p \in ParsedChains :
        /\ ppc = "ready" /\ chain.group # NoGroup /\ p.chain = chain
        /\ pout' = p.parsed
        /\ ppc' = "parsed"
        /\ UNCHANGED <<chain, ptokens, pcurrent, pstatements, pbefore>>
        /\ UNCHANGED <<codecVars, lexVars, envVars, runVars, evalVars>>

ParseNext == ParseFlat \/ ParseGrouped

SpecParse == ParseInit /\ [][ParseNext]_vars

(***************************************************************************)
(* Statement driver: Parser::new(tokens) then parse(), one turn of its     *)
(* loop per step                                                           *)
(***************************************************************************)
\* pieces of source text: statements, beginnings of statements and tokens
\* that start no statement
StatementParts ==
    { <<"D","E","C","L","A","R","A"," ","X"," ","E","S","T"," ","1"," ">>,
      <<"X"," ","E","S","T"," ","2"," ">>,
      <<"S","C","R","I","B","E","(","X",")"," ">>,
      <<"A","V","T","E","M"," ">>,
      <<"E","S","T"," ">>,
      <<")"," ">>,
      <<"1"," ">>,
      <<"A","D","D","I","U","S"," ","1"," ">>,
      <<"D","E","C","L","A","R","A"," ">>,
      <<"S","C","R","I","B","E","("," ">>,
      <<"X"," ">>,
      <<"\"","s","\""," ">> }

\* the token streams handed to Parser::new: the tokens of up to MaxParts
\* pieces, as tokenize returns them or with the end-of-input token twice
TokenStreams ==
    LET lexed == {tokenize(Concat(ps)).val : ps \in SeqsUpTo(StatementParts, MaxParts)}
    IN lexed \cup {Append(t, t[Len(t)]) : t \in lexed}

\* self.parse_statement() at every cursor of every stream
StatementCalls ==
    {[tokens |-> t,
      at |-> [c \in 0..(Len(t) - 1) |-> parse_statement(t, c)]] : t \in TokenStreams}

TokensInit ==
    /\ CodecOff /\ LexOff /\ EnvOff /\ RunOff /\ EvalOff
    /\ ppc = "new"
    /\ chain = [ops |-> << >>, group |-> NoGroup]
    /\ pout = NoResult
    /\ ParserIdle

\* Parser::new(tokens)
ParserNew ==
    \E t \in TokenStreams :
        /\ ppc = "new"
        /\ ptokens' = t
        /\ pcurrent' = 0
        /\ ppc' = "loop"
        /\ UNCHANGED <<chain, pout, pstatements, pbefore>>
        /\ UNCHANGED <<codecVars, lexVars, envVars, runVars, evalVars>>

\* a turn of the loop: statements.push(self.parse_statement()?) with Ok
ParseStatementOk ==
    \E call \in StatementCalls :
        /\ ppc = "loop" /\ call.tokens = ptokens
        /\ ~is_at_end(ptokens, pcurrent)
        /\ call.at[pcurrent].out.ok
        /\ pbefore' = pcurrent
        /\ pcurrent' = call.at[pcurrent].cur
        /\ pstatements' = Append(pstatements, call.at[pcurrent].out.val)
        /\ UNCHANGED <<ppc, chain, pout, ptokens>>
        /\ UNCHANGED <<codecVars, lexVars, envVars, runVars, evalVars>>

\* a turn of the loop in which parse_statement fails: `?` returns the error
ParseStatementErr ==
    \E call \in StatementCalls :
        /\ ppc = "loop" /\ call.tokens = ptokens
        /\ ~is_at_end(ptokens, pcurrent)
        /\ ~call.at[pcurrent].out.ok
        /\ pbefore' = pcurrent
        /\ pcurrent' = call.at[pcurrent].cur
        /\ pout' = Err(call.at[pcurrent].out.err)
        /\ ppc' = "returned"
        /\ UNCHANGED <<chain, ptokens, pstatements>>
        /\ UNCHANGED <<codecVars, lexVars, envVars, runVars, evalVars>>

\* is_at_end(): Ok(Program::new(statements))
ParseReturn ==
    /\ ppc = "loop"
    /\ is_at_end(ptokens, pcurrent)
    /\ pout' = Ok(pstatements)
    /\ ppc' = "returned"
    /\ UNCHANGED <<chain, ptokens, pcurrent, pstatements, pbefore>>
    /\ UNCHANGED <<codecVars, lexVars, envVars, runVars, evalVars>>

TokensNext == ParserNew \/ ParseStatementOk \/ ParseStatementErr \/ ParseReturn

SpecTokens == TokensInit /\ [][TokensNext]_vars

(***************************************************************************)
(* Evaluation driver: with A and B bound to any two values, one statement  *)
(* `DECLARA R EST ...` is executed, and then one statement that uses R     *)
(***************************************************************************)
\* the numbers at the ends of the i32 range, around zero and around the
\* largest Roman numeral, and some in between
OperandNumbers ==
    {I32_MIN + k : k \in 0..Near} \cup ((-Near)..Near)
        \cup ((ROMAN_MAX - Near)..(ROMAN_MAX + Near))
        \cup {I32_MAX - k : k \in 0..Near}
        \cup {-65536, -7, 2, 6, 25, 42, 46341, 65536}

OperandValues ==
    {Number(n) : n \in OperandNumbers}
        \cup {String(<< >>), String(<<"S","u","m","m","a",":"," ">>)}

\* the statements the driver executes, one per line of its program
EvalTexts ==
    << <<"D","E","C","L","A","R","A"," ","R"," ","E","S","T"," ",
         "A"," ","A","D","D","I","U","S"," ","B">>,
       <<"D","E","C","L","A","R","A"," ","R"," ","E","S","T"," ",
         "A"," ","S","U","B","T","R","A","H","E"," ","B">>,
       <<"D","E","C","L","A","R","A"," ","R"," ","E","S","T"," ",
         "A"," ","M","U","L","T","I","P","L","I","C","A"," ","B">>,
       <<"D","E","C","L","A","R","A"," ","R"," ","E","S","T"," ",
         "A"," ","D","I","V","I","D","E"," ","B">>,
       <<"D","E","C","L","A","R","A"," ","R"," ","E","S","T"," ","A">>,
       <<"S","C","R","I","B","E","(","R",")">>,
       <<"S","C","R","I","B","E","(","R","O","M","A","N","I","Z","A","(","R",")",")">>,
       <<"S","C","R","I","B","E","(","A","R","A","B","I","Z","A","(","R",")",")">>,
       <<"R"," ","E","S","T"," ","R"," ","A","D","D","I","U","S"," ","1">>,
       <<"D","E","C","L","A","R","A"," ","Z"," ","E","S","T"," ","Z">>,
       <<"D","E","C","L","A","R","A"," ","A"," ","E","S","T"," ",
         "A"," ","S","U","B","T","R","A","H","E"," ","Z">>,
       <<"D","E","C","L","A","R","A"," ","A"," ","E","S","T"," ",
         "Z"," ","D","I","V","I","D","E"," ","A">>,
       <<"D","E","C","L","A","R","A"," ","A"," ","E","S","T"," ",
         "A"," ","M","U","L","T","I","P","L","I","C","A"," ",
         "(","A"," ","D","I","V","I","D","E"," ","B",")">> >>

\* run_program's lexing and parsing, line by line: the statements of the
\* driver's program
EvalPrograms ==
    {[k \in 1..Len(EvalTexts) |-> lex_and_parse(EvalTexts[k]).val[1]]}

EvalInit ==
    /\ CodecOff /\ LexOff /\ ParseOff /\ RunOff
    /\ epc = "load"
    /\ \E a \in OperandValues, b \in OperandValues :
           env = Insert(Insert(EnvironmentNew, <<"A">>, a), <<"B">>, b)
    /\ prevEnv = EnvironmentNew
    /\ envCall = NoCall /\ envOut = NoResult
    /\ evalStmt = NoStatement
    /\ evalOut = NoResult

\* the driver's program is lexed and parsed
EvalLoad ==
    \E p \in EvalPrograms :
        /\ epc = "load"
        /\ epc' = "ready"
        /\ prog' = p
        /\ UNCHANGED <<rpc, mode, loaded, idx, output, result, entryEnv, done, printed,
                       older, declaredOk, evalStmt, evalOut>>
        /\ UNCHANGED <<codecVars, lexVars, parseVars, envVars>>

\* Interpreter::execute_statement on the k-th statement
EvalStep(k, onOk) ==
    LET r == execute_statement(env, output, prog[k]) IN
    /\ epc' = IF Panicked(r.res) THEN "aborted" ELSE IF r.res.ok THEN onOk ELSE "done"
    /\ evalStmt' = prog[k]
    /\ evalOut' = IF Panicked(r.res) THEN NoResult ELSE r.res
    /\ prevEnv' = env
    /\ env' = r.env
    /\ output' = r.output
    /\ UNCHANGED <<rpc, mode, loaded, prog, idx, result, entryEnv, done, printed,
                   older, declaredOk>>
    /\ UNCHANGED <<codecVars, lexVars, parseVars, envCall, envOut>>

\* DECLARA R EST A ADDIUS B
EvalAdd == epc = "ready" /\ EvalStep(1, "stored")

\* DECLARA R EST A SUBTRAHE B
EvalSubtract == epc = "ready" /\ EvalStep(2, "stored")

\* DECLARA R EST A MULTIPLICA B
EvalMultiply == epc = "ready" /\ EvalStep(3, "stored")

\* DECLARA R EST A DIVIDE B
EvalDivide == epc = "ready" /\ EvalStep(4, "stored")

\* DECLARA R EST A
EvalCopy == epc = "ready" /\ EvalStep(5, "stored")

\* SCRIBE(R)
EvalPrint == epc = "stored" /\ EvalStep(6, "done")

\* SCRIBE(ROMANIZA(R))
EvalRomaniza == epc = "stored" /\ EvalStep(7, "done")

\* SCRIBE(ARABIZA(R))
EvalArabiza == epc = "stored" /\ EvalStep(8, "done")

\* R EST R ADDIUS 1
EvalReuse == epc = "stored" /\ EvalStep(9, "done")

\* DECLARA Z EST Z
EvalSelf == epc = "ready" /\ EvalStep(10, "done")

\* DECLARA A EST A SUBTRAHE Z
EvalRightFails == epc = "ready" /\ EvalStep(11, "done")

\* DECLARA A EST Z DIVIDE A
EvalLeftFails == epc = "ready" /\ EvalStep(12, "done")

\* DECLARA A EST A MULTIPLICA (A DIVIDE B)
EvalNested == epc = "ready" /\ EvalStep(13, "done")

EvalNext ==
    \/ EvalLoad
    \/ EvalAdd \/ EvalSubtract \/ EvalMultiply \/ EvalDivide \/ EvalCopy
    \/ EvalPrint \/ EvalRomaniza \/ EvalArabiza \/ EvalReuse
    \/ EvalSelf \/ EvalRightFails \/ EvalLeftFails \/ EvalNested

SpecEval == EvalInit /\ [][EvalNext]_vars





----------------------------------------------------------------------------
\* C1: for every n in 1..=3999 to_roman(n) succeeds and
\* from_roman(to_roman(n)) returns Ok(n)
C1_RoundTrip ==
    /\ (cpc \in {"encoded", "failed"} /\ num \in 1..ROMAN_MAX) => rom.ok
    /\ (cpc = "roundtrip" /\ num \in 1..ROMAN_MAX) => (dec.ok /\ dec.val = num)

C1_Witness ==
    /\ cpc = "roundtrip" /\ num = 1999
    /\ str = <<"M","C","M","X","C","I","X">>
    /\ dec.ok /\ dec.val = 1999

\* C2: whenever from_roman(s) returns Ok(n), n lies in 1..=3999 and to_roman(n)
\* is exactly the uppercased s
C2_OnlyCanonical ==
    (cpc = "decoded" /\ dec.ok) =>
        /\ dec.val \in 1..ROMAN_MAX
        /\ to_roman(dec.val).ok
        /\ to_roman(dec.val).val = to_uppercase(str)

----------------------------------------------------------------------------
\* Helpers of the lexer claims: the latest next_token call started, after the
\* white space, at CallStart; the maximal run of characters of a class that
\* starts there ends at RunEnd.
CallStart == skip_whitespace(input, lxPrev)

CallMade == lx # lxPrev

RunEnd(class) ==
    CHOOSE e \in CallStart.pos..Len(input) :
        /\ \A i \in (CallStart.pos + 1)..e : input[i] \in class
        /\ e = Len(input) \/ input[e + 1] \notin class

CallRun(class) == SubSeq(input, CallStart.pos + 1, RunEnd(class))

\* the latest statement the call executed, and what it returned
LastDone == done[Len(done)]

\* what the statements of d from the i-th on that succeeded do to an
\* interpreter (e, o): a declaration or assignment binds the name to the value
\* of its expression, a print appends the printed form of the value
RECURSIVE Replay(_, _, _, _)
Replay(e, o, d, i) ==
    IF i > Len(d) THEN [env |-> e, output |-> o]
    ELSE IF ~d[i].res.ok THEN Replay(e, o, d, i + 1)
    ELSE LET s == d[i].stmt IN
         IF s.kind \in {"Declaration", "Assignment"}
         THEN Replay(Insert(e, s.name, evaluate_expression(e, s.value).val), o, d, i + 1)
         ELSE IF s.kind = "Print"
         THEN Replay(e, Append(o, to_output_string(evaluate_expression(e, s.value).val).val),
                     d, i + 1)
         ELSE Replay(e, o, d, i + 1)

\* C3: Interpreter::run executes the statements of the program in source
\* order; at the first statement that fails it returns that statement's error
\* and executes no later statement; the environment (and the output) is what
\* the earlier successful statements of the run made of it, nothing is undone.
C3_FailFastNoRollback ==
    (mode = "run") =>
        LET n == Len(done) IN
        /\ n <= Len(prog)
        /\ \A i \in 1..n : done[i].stmt = prog[i]
        /\ \A i \in 1..(n - 1) : done[i].res.ok
        /\ (n > 0 /\ ~done[n].res.ok) => (rpc = "returned" /\ result = done[n].res)
        /\ (rpc = "returned" /\ result.ok) =>
               (n = Len(prog) /\ \A i \in 1..n : done[i].res.ok)
        /\ (rpc = "returned" /\ ~result.ok) => (n > 0 /\ result = done[n].res)
        /\ env = Replay(entryEnv, << >>, done, 1).env
        /\ output = Replay(entryEnv, << >>, done, 1).output

\* a run that failed before its last statement, after a statement that changed
\* the environment
C3_Witness ==
    /\ mode = "run" /\ rpc = "returned" /\ ~result.ok
    /\ Len(done) > 1 /\ Len(done) < Len(prog)
    /\ env # entryEnv

\* C4: after any sequence of environment operations, declaring a name that is
\* bound fails with VariableAlreadyDeclared and leaves every binding as it
\* was; declaring an unbound name succeeds, binds it to the given value and
\* leaves the other bindings as they were.
C4_DeclareOnce ==
    (envCall.op = "declare") =>
        IF envCall.name \in DOMAIN prevEnv
        THEN /\ envOut = Err([kind |-> "VariableAlreadyDeclared", name |-> envCall.name])
             /\ env = prevEnv
        ELSE /\ envOut = Ok(Unit)
             /\ DOMAIN env = DOMAIN prevEnv \cup {envCall.name}
             /\ env[envCall.name] = envCall.value
             /\ \A k \in DOMAIN prevEnv : env[k] = prevEnv[k]

\* a second declaration of a name, with another value, failed
C4_Witness ==
    /\ envCall.op = "declare"
    /\ envCall.name \in DOMAIN prevEnv
    /\ prevEnv[envCall.name] # envCall.value
    /\ ~envOut.ok
    /\ Cardinality(DOMAIN env) = 2

UndefinedVariable(name) == Err([kind |-> "UndefinedVariable", name |-> name])

\* C5: the text `X EST 0` parses to an Assignment to X whatever the
\* environment holds, and a failure to lex or parse is never the
\* undefined-variable error; an executed assignment whose expression has a
\* value fails with UndefinedVariable and leaves the environment as it was
\* when the name is not bound, and binds the name to the value when it is;
\* a statement that reads a name that is not bound fails with UndefinedVariable.
C5_AssignIfExists ==
    /\ (mode = "run") =>
           \A i \in 1..Len(loaded.stmts) :
               (loaded.stmts[i] = X_EST_0) =>
                   /\ i <= Len(prog)
                   /\ prog[i].kind = "Assignment"
                   /\ prog[i].name = <<"X">>
    /\ (mode = "load") => (~result.ok /\ result.err.kind # "UndefinedVariable")
    /\ (mode \in {"run", "execute"} /\ Len(done) > 0) =>
           LET s == LastDone.stmt
               r == LastDone.res
           IN  /\ (s.kind = "Assignment" /\ evaluate_expression(prevEnv, s.value).ok) =>
                      IF s.name \notin DOMAIN prevEnv
                      THEN /\ r = UndefinedVariable(s.name)
                           /\ env = prevEnv
                           /\ s.name \notin DOMAIN env
                      ELSE /\ r.ok
                           /\ DOMAIN env = DOMAIN prevEnv
                           /\ env[s.name] = evaluate_expression(prevEnv, s.value).val
                           /\ \A k \in DOMAIN prevEnv \ {s.name} : env[k] = prevEnv[k]
               /\ (/\ s.kind \in {"Declaration", "Assignment", "Print"}
                   /\ s.value.kind = "Variable"
                   /\ s.value.name \notin DOMAIN prevEnv) =>
                      (r = UndefinedVariable(s.value.name) /\ env = prevEnv)

\* a run entered with X not declared parsed `X EST 0` to an Assignment, and the
\* assignment failed at run time
C5_Witness ==
    /\ mode = "run" /\ rpc = "returned"
    /\ <<"X">> \notin DOMAIN entryEnv
    /\ Len(done) > 0
    /\ LastDone.stmt.kind = "Assignment"
    /\ result = UndefinedVariable(<<"X">>)
    /\ <<"X">> \notin DOMAIN env

\* C6: the names declared by earlier calls on the interpreter are still bound
\* in a later call: declaring one again fails with VariableAlreadyDeclared,
\* assigning to one succeeds and reading one is not an undefined-variable
\* error; the output a call returns is the lines printed during that call, in
\* print order.
C6_SessionPersistence ==
    /\ older \subseteq DOMAIN env
    /\ (rpc = "returned" /\ mode \in {"run", "execute"} /\ result.ok) =>
           result.val = printed
    /\ (mode \in {"run", "execute"} /\ Len(done) > 0) =>
           LET s == LastDone.stmt
               r == LastDone.res
           IN  /\ (/\ s.kind = "Declaration" /\ s.name \in older
                   /\ evaluate_expression(prevEnv, s.value).ok) =>
                      r = Err([kind |-> "VariableAlreadyDeclared", name |-> s.name])
               /\ (/\ s.kind = "Assignment" /\ s.name \in older
                   /\ evaluate_expression(prevEnv, s.value).ok) =>
                      (r.ok /\ env[s.name] = evaluate_expression(prevEnv, s.value).val)
               /\ (/\ s.kind \in {"Declaration", "Assignment", "Print"}
                   /\ s.value.kind = "Variable"
                   /\ s.value.name \in older) =>
                      (r.ok \/ r.err.kind # "UndefinedVariable")

\* a later run printed a variable that an earlier call declared, and returned
\* that one line
C6_Witness ==
    /\ mode = "run" /\ rpc = "returned"
    /\ older = {<<"X">>}
    /\ <<"X">> \in DOMAIN entryEnv
    /\ Len(done) = 1 /\ LastDone.stmt.kind = "Print"
    /\ result = Ok(<< <<"I">> >>)


IsIdentifier(tok, name) ==
    tok.kind = "Identifier" /\ tok.text = name /\ tok.lexeme = name

\* C7: a name that is no keyword becomes an Identifier when it has one letter or
\* holds a character other than I V X L C D M; a name of two or more of these
\* letters becomes a Roman literal with from_roman's value when from_roman
\* succeeds and an Identifier when it fails; it is never a lexical error
C7_Disambiguation ==
    LET name == CallRun(NameChars)
        comment == name = <<"N","O","T","A">> /\ Peek(input, [pos |-> RunEnd(NameChars)]) = ":"
    IN (CallMade /\ Peek(input, CallStart) \in NameStart
          /\ KeywordKind(name) = "" /\ ~comment) =>
        /\ lpc = "scan" /\ lexres = NoResult
        /\ IF Len(name) >= 2 /\ \A i \in 1..Len(name) : name[i] \in RomanLetters
           THEN IF from_roman(name).ok
                THEN /\ lastTok.kind = "RomanLiteral"
                     /\ lastTok.num = from_roman(name).val
                     /\ lastTok.lexeme = name
                ELSE IsIdentifier(lastTok, name)
           ELSE IsIdentifier(lastTok, name)

C7_Witness ==
    /\ CallMade /\ input = <<"X", "I", "V">>
    /\ lastTok.kind = "RomanLiteral" /\ lastTok.num = 14

\* C8: every Roman literal token has a lexeme of at least 2 characters that is
\* the canonical encoding of its value, and its value lies in 1..=3999
C8_RomanLiteralCanonical ==
    \A i \in 1..Len(tokens) :
        tokens[i].kind = "RomanLiteral" =>
            /\ Len(tokens[i].lexeme) >= 2
            /\ tokens[i].num \in 1..ROMAN_MAX
            /\ to_roman(tokens[i].num).ok
            /\ to_roman(tokens[i].num).val = tokens[i].lexeme

\* C9: a run of digits whose value exceeds 3999 makes tokenize fail with the
\* number-out-of-range error carrying that value and the run's span; any other
\* run becomes an Arabic literal with the run's value
C9_ArabicRange ==
    LET run == CallRun(Digits)
        v == StripZeros(run)
    IN (CallMade /\ Peek(input, CallStart) \in Digits) =>
        IF DecGreater(v, <<"3","9","9","9">>)
        THEN /\ lpc = "done" /\ ~lexres.ok
             /\ lexres.err.kind = "NumberOutOfRange"
             /\ lexres.err.value = v
             /\ lexres.err.span =
                    SpanNew(CallStart.pos, RunEnd(Digits), CallStart.line, CallStart.column)
        ELSE /\ lpc = "scan" /\ lexres = NoResult
             /\ lastTok.kind = "ArabicLiteral"
             /\ lastTok.num = DigitsToInt(v)

\* C10: when tokenize succeeds its vector holds no Newline and no Comment
\* token, exactly one end-of-input token, which is the last element, and the
\* other tokens in source order
C10_TokenStreamShape ==
    (lpc = "done" /\ lexres.ok) =>
        LET ts == lexres.val IN
        /\ Len(ts) >= 1
        /\ \A i \in 1..Len(ts) : ts[i].kind \notin {"Newline", "Comment", "None"}
        /\ \A i \in 1..Len(ts) : ts[i].kind = "Eof" <=> i = Len(ts)
        /\ \A i \in 1..(Len(ts) - 1) :
              /\ ts[i].span.start < ts[i].span.end
              /\ ts[i].span.end <= ts[i + 1].span.start
              /\ ts[i].lexeme = SubSeq(input, ts[i].span.start + 1, ts[i].span.end)

C10_Witness ==
    /\ lpc = "done" /\ lexres.ok
    /\ input = <<"(", "\n", "X">>
    /\ Len(lexres.val) = 3
    /\ lexres.val[2].kind = "Identifier"

\* an expression without its spans
RECURSIVE Shape(_)
Shape(expr) ==
    CASE expr.kind = "BinaryOp" ->
           [kind |-> "BinaryOp", left |-> Shape(expr.left), operator |-> expr.operator,
            right |-> Shape(expr.right)]
      [] expr.kind = "Grouped" -> [kind |-> "Grouped", inner |-> Shape(expr.inner)]
      [] expr.kind = "FunctionCall" ->
           [kind |-> "FunctionCall", function |-> expr.function,
            argument |-> Shape(expr.argument)]
      [] expr.kind = "NumberLiteral" ->
           [kind |-> "NumberLiteral", value |-> expr.value,
            original_form |-> expr.original_form]
      [] expr.kind = "Variable" -> [kind |-> "Variable", name |-> expr.name]
      [] OTHER -> [kind |-> "StringLiteral", text |-> expr.text]

\* what the operand at the i-th place of a chain denotes
LeafShapes ==
    << [kind |-> "Variable", name |-> <<"A">>],
       [kind |-> "Variable", name |-> <<"B">>],
       [kind |-> "Variable", name |-> <<"C">>],
       [kind |-> "NumberLiteral", value |-> 4, original_form |-> "Roman"],
       [kind |-> "NumberLiteral", value |-> 7, original_form |-> "Arabic"],
       [kind |-> "Variable", name |-> <<"x">>] >>

LeafShape(i) == LeafShapes[((i - 1) % Len(LeafShapes)) + 1]

Additive == {"Add", "Subtract"}

Multiplicative == {"Multiply", "Divide"}

Max(S) == CHOOSE m \in S : \A k \in S : k <= m

\* the grammar's reading of the operands `leaves` joined by the operators
\* `ops`: the last operator of the loosest level present is the root
RECURSIVE Reading(_, _)
Reading(ops, leaves) ==
    IF Len(ops) = 0 THEN leaves[1]
    ELSE LET adds == {k \in 1..Len(ops) : ops[k] \in Additive}
             k == IF adds # {} THEN Max(adds) ELSE Len(ops)
         IN  [kind |-> "BinaryOp",
              left |-> Reading(SubSeq(ops, 1, k - 1), SubSeq(leaves, 1, k)),
              operator |-> ops[k],
              right |-> Reading(SubSeq(ops, k + 1, Len(ops)),
                                SubSeq(leaves, k + 1, Len(leaves)))]

\* the reading of a chain: a parenthesized run of operands is one operand
ChainReading(c) ==
    LET n == Len(c.ops)
        leaves == [i \in 1..(n + 1) |-> LeafShape(i)]
        g == c.group
    IN  IF g = NoGroup THEN Reading(c.ops, leaves)
        ELSE Reading(SubSeq(c.ops, 1, g.from - 1) \o SubSeq(c.ops, g.to, n),
                     SubSeq(leaves, 1, g.from - 1)
                         \o << [kind |-> "Grouped",
                                inner |-> Reading(SubSeq(c.ops, g.from, g.to - 1),
                                                  SubSeq(leaves, g.from, g.to))] >>
                         \o SubSeq(leaves, g.to + 1, n + 1))

\* the expression of the statement the parser returned
ParsedExpr == Shape(pout.val[1].value)

\* the BinaryOp nodes of an expression shape
RECURSIVE Nodes(_)
Nodes(sh) ==
    CASE sh.kind = "BinaryOp" -> {sh} \cup Nodes(sh.left) \cup Nodes(sh.right)
      [] sh.kind = "Grouped" -> Nodes(sh.inner)
      [] sh.kind = "FunctionCall" -> Nodes(sh.argument)
      [] OTHER -> {}

IsBinary(sh, level) == sh.kind = "BinaryOp" /\ sh.operator \in level

\* C11: every chain parses to one Declaration whose expression is the reading
\* in which MULTIPLICA and DIVIDE bind tighter than ADDIUS and SUBTRAHE and a
\* parenthesized run is one Grouped factor: no operand of a Multiply or
\* Divide node is a bare Add or Subtract node.
C11_Precedence ==
    (ppc = "parsed") =>
        /\ pout.ok /\ Len(pout.val) = 1 /\ pout.val[1].kind = "Declaration"
        /\ ParsedExpr = ChainReading(chain)
        /\ \A nd \in Nodes(ParsedExpr) :
               IsBinary(nd, Multiplicative) =>
                   /\ ~IsBinary(nd.left, Additive)
                   /\ ~IsBinary(nd.right, Additive)

\* `A ADDIUS B MULTIPLICA C` was parsed as Add(A, Multiply(B, C))
C11_Witness ==
    /\ ppc = "parsed" /\ pout.ok
    /\ chain = [ops |-> <<"Add", "Multiply">>, group |-> NoGroup]
    /\ ParsedExpr =
           [kind |-> "BinaryOp", left |-> LeafShape(1), operator |-> "Add",
            right |-> [kind |-> "BinaryOp", left |-> LeafShape(2),
                       operator |-> "Multiply", right |-> LeafShape(3)]]

\* the operands of an expression shape, left to right (a Grouped is one)
RECURSIVE Operands(_)
Operands(sh) ==
    IF sh.kind = "BinaryOp" THEN Operands(sh.left) \o Operands(sh.right) ELSE <<sh>>

\* the operators of an expression shape, left to right, outside parentheses
RECURSIVE OperatorsOf(_)
OperatorsOf(sh) ==
    IF sh.kind = "BinaryOp"
    THEN OperatorsOf(sh.left) \o <<sh.operator>> \o OperatorsOf(sh.right)
    ELSE << >>

\* the fold to the left of operands joined by operators
RECURSIVE LeftFold(_, _)
LeftFold(ops, leaves) ==
    IF Len(ops) = 0 THEN leaves[1]
    ELSE [kind |-> "BinaryOp",
          left |-> LeftFold(SubSeq(ops, 1, Len(ops) - 1),
                            SubSeq(leaves, 1, Len(leaves) - 1)),
          operator |-> ops[Len(ops)],
          right |-> leaves[Len(leaves)]]

OneLevel(ops) ==
    (\A k \in 1..Len(ops) : ops[k] \in Additive)
        \/ (\A k \in 1..Len(ops) : ops[k] \in Multiplicative)

\* C12: operators of one level group to the left: in every parsed chain the
\* right operand of an Add or Subtract node is never an Add or Subtract node
\* and the right operand of a Multiply or Divide node is never a BinaryOp
\* node, the operands and operators keep their source order, and a chain
\* whose operators are all of one level is the fold to the left of its
\* operands.
C12_LeftAssociative ==
    (ppc = "parsed" /\ pout.ok) =>
        /\ \A nd \in Nodes(ParsedExpr) :
               /\ IsBinary(nd, Additive) => ~IsBinary(nd.right, Additive)
               /\ IsBinary(nd, Multiplicative) => nd.right.kind # "BinaryOp"
        /\ (chain.group = NoGroup) =>
               /\ OperatorsOf(ParsedExpr) = chain.ops
               /\ Operands(ParsedExpr) = [i \in 1..(Len(chain.ops) + 1) |-> LeafShape(i)]
               /\ OneLevel(chain.ops) =>
                      ParsedExpr = LeftFold(chain.ops, Operands(ParsedExpr))

\* `A SUBTRAHE B SUBTRAHE C` was parsed as Subtract(Subtract(A, B), C)
C12_Witness ==
    /\ ppc = "parsed" /\ pout.ok
    /\ chain = [ops |-> <<"Subtract", "Subtract">>, group |-> NoGroup]
    /\ ParsedExpr =
           [kind |-> "BinaryOp",
            left |-> [kind |-> "BinaryOp", left |-> LeafShape(1),
                      operator |-> "Subtract", right |-> LeafShape(2)],
            operator |-> "Subtract", right |-> LeafShape(3)]

(***************************************************************************)
(* Claims about the evaluation of expressions and the printing of values   *)
(***************************************************************************)
\* the operands of the driver's first statement, and the variable it declares
OperandA == env[<<"A">>]

OperandB == env[<<"B">>]

\* the last statement executed was DECLARA R EST A <operator> B
Stored(operator) ==
    /\ evalStmt.kind = "Declaration"
    /\ evalStmt.name = <<"R">>
    /\ evalStmt.value.kind = "BinaryOp"
    /\ evalStmt.value.operator = operator

\* the number minus-d1 d2 ... dk of a text of decimal digits (accumulated
\* below zero, where every i32 has room)
RECURSIVE NegValue(_)
NegValue(ds) ==
    IF Len(ds) = 0 THEN 0
    ELSE 10 * NegValue(SubSeq(ds, 1, Len(ds) - 1)) - DigitValue(ds[Len(ds)])

\* ds is a text of decimal digits without a superfluous leading zero
PlainDigits(ds) ==
    /\ Len(ds) >= 1
    /\ \A i \in 1..Len(ds) : ds[i] \in Digits
    /\ Len(ds) > 1 => ds[1] # "0"

\* txt is the number n written in decimal digits, with a minus sign if n < 0
IsDecimalOf(txt, n) ==
    IF n < 0
    THEN /\ Len(txt) >= 2
         /\ txt[1] = "-"
         /\ PlainDigits(Tail(txt))
         /\ NegValue(Tail(txt)) = n
    ELSE /\ PlainDigits(txt)
         /\ NegValue(txt) = -n

\* txt is the number n as ADDIUS joins it to a string: the canonical Roman
\* numeral from 1 to 3999, decimal digits otherwise
IsJoined(txt, n) ==
    IF 1 <= n /\ n <= ROMAN_MAX
    THEN from_roman(txt) = Ok(n) /\ to_roman(n) = Ok(txt)
    ELSE IsDecimalOf(txt, n)

\* C13: ADDIUS never fails with a type mismatch; two strings are joined; a
\* string and a number are joined in the order of the operands, the number as
\* its Roman numeral from 1 to 3999 and as decimal digits otherwise
C13_AddConcatenates ==
    (epc # "load" /\ Stored("Add")) =>
        LET a == OperandA
            b == OperandB
            r == env[<<"R">>] IN
        /\ epc # "aborted"
        /\ evalOut.ok \/ evalOut.err.kind # "TypeMismatch"
        /\ (a.t = "String" \/ b.t = "String") =>
               /\ evalOut.ok
               /\ <<"R">> \in DOMAIN env
               /\ r.t = "String"
        /\ (a.t = "String" /\ b.t = "String") => r.s = a.s \o b.s
        /\ (a.t = "String" /\ b.t = "Number") =>
               /\ Len(r.s) >= Len(a.s)
               /\ SubSeq(r.s, 1, Len(a.s)) = a.s
               /\ IsJoined(SubSeq(r.s, Len(a.s) + 1, Len(r.s)), b.n)
        /\ (a.t = "Number" /\ b.t = "String") =>
               /\ Len(r.s) >= Len(b.s)
               /\ SubSeq(r.s, Len(r.s) - Len(b.s) + 1, Len(r.s)) = b.s
               /\ IsJoined(SubSeq(r.s, 1, Len(r.s) - Len(b.s)), a.n)

\* "Summa: " ADDIUS 25 has been stored and SCRIBE has printed `Summa: XXV`
C13_Witness ==
    /\ epc = "done"
    /\ evalStmt.kind = "Print"
    /\ evalStmt.value.kind = "Variable"
    /\ OperandA = String(<<"S","u","m","m","a",":"," ">>)
    /\ OperandB = Number(25)
    /\ output = << <<"S","u","m","m","a",":"," ","X","X","V">> >>

\* pairwise coprime moduli whose squares fit an i32 and whose product is
\* above 2^65: two i64 with the same residues are the same number
Moduli == {46337, 46327, 46309, 46307, 46301}

\* the residue modulo m of an i64 given as sign and magnitude
RECURSIVE MagResidue(_, _)
MagResidue(mag, m) ==
    IF Len(mag) = 0 THEN 0
    ELSE (((MagResidue(Tail(mag), m) * 10000) % m) + mag[1]) % m

Residue(w, m) ==
    IF w.neg THEN (m - MagResidue(w.mag, m)) % m ELSE MagResidue(w.mag, m)

\* the residue modulo m of the exact a + b, a - b or a * b
ExactResidue(operator, a, b, m) ==
    CASE operator = "Add" -> ((a % m) + (b % m)) % m
      [] operator = "Subtract" -> ((a % m) + m - (b % m)) % m
      [] OTHER -> ((a % m) * (b % m)) % m

\* w is the exact result of the operation on a and b
IsExact(w, operator, a, b) ==
    \A m \in Moduli : Residue(w, m) = ExactResidue(operator, a, b, m)

\* -2^31 <= w <= 2^31 - 1
InI32(w) ==
    IF w.neg THEN ~MagLess(<<3648, 4748, 21>>, w.mag)
    ELSE ~MagLess(<<3647, 4748, 21>>, w.mag)

\* -2^63 <= w <= 2^63 - 1
InI64(w) ==
    IF w.neg THEN ~MagLess(<<5808, 5477, 3685, 7203, 922>>, w.mag)
    ELSE MagLess(w.mag, <<5808, 5477, 3685, 7203, 922>>)

\* C14: ADDIUS, SUBTRAHE and MULTIPLICA on two numbers give the exact result
\* when it fits an i32, and otherwise fail with the integer-overflow error
\* that carries the exact result as an i64; the result never wraps
C14_CheckedArithmetic ==
    \A operator \in {"Add", "Subtract", "Multiply"} :
        (/\ epc # "load"
         /\ Stored(operator)
         /\ OperandA.t = "Number"
         /\ OperandB.t = "Number") =>
            /\ epc # "aborted"
            /\ evalOut.ok =>
                   /\ <<"R">> \in DOMAIN env
                   /\ env[<<"R">>].t = "Number"
                   /\ LET v == env[<<"R">>].n IN
                       IsExact(I64(v < 0, Magnitude(v)), operator, OperandA.n, OperandB.n)
            /\ ~evalOut.ok =>
                   /\ evalOut.err.kind = "IntegerOverflow"
                   /\ <<"R">> \notin DOMAIN env
                   /\ LET w == I64Value(evalOut.err.wide) IN
                       /\ InI64(w)
                       /\ ~InI32(w)
                       /\ IsExact(w, operator, OperandA.n, OperandB.n)

\* 65536 MULTIPLICA 65536 has failed with the overflow error carrying
\* 4294967296
C14_Witness ==
    /\ Stored("Multiply")
    /\ OperandA = Number(65536)
    /\ OperandB = Number(65536)
    /\ ~evalOut.ok
    /\ evalOut.err.kind = "IntegerOverflow"
    /\ I64Value(evalOut.err.wide) = [neg |-> FALSE, mag |-> <<7296, 9496, 42>>]

\* q is the quotient of a by b truncated toward zero: a = q * b + r with
\* |r| < |b| and r zero or of the sign of a (b # 0, and q * b fits an i32)
IsTruncatedQuotient(q, a, b) ==
    /\ MulFits(q, b)
    /\ SubFits(a, q * b)
    /\ LET r == a - q * b IN
        /\ IF b > 0 THEN -b < r /\ r < b ELSE b < r /\ b < -r
        /\ r = 0 \/ (r > 0) = (a > 0)

\* C15: DIVIDE on two numbers fails with the division-by-zero error when the
\* divisor is zero, and for every other divisor yields the quotient truncated
\* toward zero
C15_Division ==
    (/\ epc # "load"
     /\ Stored("Divide")
     /\ OperandA.t = "Number"
     /\ OperandB.t = "Number") =>
        IF OperandB.n = 0
        THEN /\ epc = "done"
             /\ ~evalOut.ok
             /\ evalOut.err.kind = "DivisionByZero"
        ELSE /\ epc = "stored"
             /\ evalOut.ok
             /\ <<"R">> \in DOMAIN env
             /\ env[<<"R">>].t = "Number"
             /\ IsTruncatedQuotient(env[<<"R">>].n, OperandA.n, OperandB.n)

\* C16: run returns the output lines or an error for every program, and the
\* evaluation of a binary operator on two numbers yields a value or an error
\* value: a call of run that has been entered is running or has returned
C16_Totality ==
    mode = "run" =>
        /\ rpc \in {"run", "returned"}
        /\ rpc = "returned" => (result.ok \/ result.err.kind # "NotCalled")

\* the last statement executed was SCRIBE(R)
PrintedR ==
    /\ epc = "done"
    /\ evalStmt.kind = "Print"
    /\ evalStmt.value.kind = "Variable"

\* C17: SCRIBE emits a String unchanged and a Number from 1 to 3999 as its
\* Roman numeral; a Number <= 0 fails with the negative-Roman-conversion
\* error and one above 3999 with the Roman-overflow error, and a failing
\* SCRIBE appends no line
C17_OutputConversion ==
    PrintedR =>
        LET r == env[<<"R">>] IN
        IF r.t = "String"
        THEN evalOut.ok /\ output = <<r.s>>
        ELSE IF 1 <= r.n /\ r.n <= ROMAN_MAX
        THEN /\ evalOut.ok
             /\ output = <<to_roman(r.n).val>>
             /\ from_roman(output[1]) = Ok(r.n)
        ELSE /\ ~evalOut.ok
             /\ evalOut.err.kind =
                    IF r.n <= 0 THEN "NegativeRomanConversion" ELSE "RomanOverflow"
             /\ evalOut.err.value = r.n
             /\ output = << >>

\* SCRIBE(R) with R = 0 has failed with the negative-Roman-conversion error
C17_Witness ==
    /\ PrintedR
    /\ env[<<"R">>] = Number(0)
    /\ evalOut = Err([kind |-> "NegativeRomanConversion", value |-> 0])
    /\ output = << >>

\* the operator sign the overflow error is built with
Sign(operator) ==
    CASE operator = "Add" -> "+" [] operator = "Subtract" -> "-" [] OTHER -> "*"

\* the expression of the driver's first statement has a Number as its value
\* (A itself, or A <operator> B on two numbers without overflow, division by
\* zero or the division of i32::MIN by -1)
StoresNumber ==
    /\ evalStmt.kind = "Declaration"
    /\ evalStmt.name = <<"R">>
    /\ OperandA.t = "Number"
    /\ evalStmt.value.kind = "BinaryOp" =>
           /\ OperandB.t = "Number"
           /\ IF evalStmt.value.operator = "Divide"
              THEN OperandB.n # 0 /\ ~(OperandA.n = I32_MIN /\ OperandB.n = -1)
              ELSE InI32(I64Value([op |-> Sign(evalStmt.value.operator),
                                   a |-> OperandA.n, b |-> OperandB.n]))

\* the last statement executed was the one that uses R, of the given kind
Used(kind, function) ==
    /\ epc = "done"
    /\ evalStmt.kind = kind
    /\ evalStmt.value.kind = function

\* C18: the range 1..3999 is enforced only when a value is printed: storing a
\* Number succeeds whatever the number, the stored number is an operand of
\* later arithmetic, and only SCRIBE and ROMANIZA fail on it, leaving the
\* variable declared
C18_RangeOnlyAtOutput ==
    /\ (epc # "load" /\ StoresNumber) =>
           /\ epc = "stored"
           /\ evalOut.ok
           /\ <<"R">> \in DOMAIN env
           /\ env[<<"R">>].t = "Number"
           /\ evalStmt.value.kind = "Variable" => env[<<"R">>] = OperandA
    /\ (Used("Assignment", "BinaryOp") /\ prevEnv[<<"R">>].t = "Number") =>
           LET n == prevEnv[<<"R">>].n IN
           IF n < I32_MAX
           THEN evalOut.ok /\ env[<<"R">>] = Number(n + 1)
           ELSE /\ ~evalOut.ok
                /\ evalOut.err.kind = "IntegerOverflow"
                /\ env[<<"R">>] = Number(n)
    /\ \A function \in {"Variable", "FunctionCall"} :
           (/\ Used("Print", function)
            /\ prevEnv[<<"R">>].t = "Number") =>
               LET n == prevEnv[<<"R">>].n
                   fails == (n < 1 \/ n > ROMAN_MAX)
                               /\ (function = "FunctionCall"
                                      => evalStmt.value.function = "Romaniza")
               IN /\ evalOut.ok = ~fails
                  /\ env = prevEnv

\* R holds -1, which cannot be printed, and R EST R ADDIUS 1 has stored 0
C18_Witness ==
    /\ Used("Assignment", "BinaryOp")
    /\ prevEnv[<<"R">>] = Number(-1)
    /\ evalOut.ok
    /\ env[<<"R">>] = Number(0)

\* the last statement executed was SCRIBE(<function>(R))
Called(function) ==
    /\ Used("Print", "FunctionCall")
    /\ evalStmt.value.function = function

\* C19: ROMANIZA of a Number from 1 to 3999 is its Roman numeral and fails
\* outside that range; ARABIZA of any Number is its decimal digits; either
\* built-in on a String fails with a type mismatch naming the built-in; with
\* 42 stored, ARABIZA prints `42` and SCRIBE alone prints `XLII`
C19_BuiltIns ==
    LET r == env[<<"R">>] IN
    /\ Called("Romaniza") =>
           IF r.t = "String"
           THEN /\ ~evalOut.ok
                /\ evalOut.err.kind = "TypeMismatch"
                /\ evalOut.err.operation = "ROMANIZA"
                /\ output = << >>
           ELSE IF 1 <= r.n /\ r.n <= ROMAN_MAX
           THEN /\ evalOut.ok
                /\ output = <<to_roman(r.n).val>>
                /\ from_roman(output[1]) = Ok(r.n)
           ELSE ~evalOut.ok /\ output = << >>
    /\ Called("Arabiza") =>
           IF r.t = "String"
           THEN /\ ~evalOut.ok
                /\ evalOut.err.kind = "TypeMismatch"
                /\ evalOut.err.operation = "ARABIZA"
                /\ output = << >>
           ELSE /\ evalOut.ok
                /\ Len(output) = 1
                /\ IsDecimalOf(output[1], r.n)
    /\ (Called("Arabiza") /\ r = Number(42)) => output = << <<"4","2">> >>
    /\ (PrintedR /\ r = Number(42)) => output = << <<"X","L","I","I">> >>

\* with 42 stored, SCRIBE(ARABIZA(R)) has printed `42`
C19_Witness ==
    /\ Called("Arabiza")
    /\ env[<<"R">>] = Number(42)
    /\ evalOut.ok
    /\ output = << <<"4","2">> >>

\* SCRIBE(R) has printed a line in which a number was joined to a string by
\* ADDIUS: one of A and B is a String, the other a Number, and R is not a
\* copy of A
JoinedLine ==
    /\ PrintedR
    /\ evalOut.ok
    /\ env[<<"R">>].t = "String"
    /\ OperandA.t # OperandB.t
    /\ OperandA.t = "String" => env[<<"R">>].s # OperandA.s

\* the number that was joined, and the part of the printed line it occupies
JoinedNumber == IF OperandA.t = "Number" THEN OperandA.n ELSE OperandB.n

JoinedPart ==
    IF OperandA.t = "Number"
    THEN SubSeq(output[1], 1, Len(output[1]) - Len(OperandB.s))
    ELSE SubSeq(output[1], Len(OperandA.s) + 1, Len(output[1]))

\* SCRIBE(R) has printed the Number R
DirectLine ==
    /\ PrintedR
    /\ evalOut.ok
    /\ env[<<"R">>].t = "Number"

\* txt is the canonical Roman numeral of n
IsRomanOf(txt, n) ==
    /\ Len(txt) >= 1
    /\ \A i \in 1..Len(txt) : txt[i] \in RomanLetters
    /\ from_roman(txt) = Ok(n)
    /\ to_roman(n) = Ok(txt)

\* C20 as stated: without ARABIZA, a number that contributes to a printed
\* line, printed directly or joined to a string by ADDIUS, appears in it as a
\* canonical Roman numeral
C20_AlwaysRoman ==
    /\ DirectLine => IsRomanOf(output[1], env[<<"R">>].n)
    /\ JoinedLine => IsRomanOf(JoinedPart, JoinedNumber)

\* C20 amended: without ARABIZA, a number from 1 to 3999 that contributes to
\* a printed line appears in it as its canonical Roman numeral; a number
\* outside 1..3999 is never printed directly, and joined to a string by
\* ADDIUS it appears as its decimal digits
C20_RomanWithinRange ==
    /\ DirectLine =>
           /\ 1 <= env[<<"R">>].n /\ env[<<"R">>].n <= ROMAN_MAX
           /\ IsRomanOf(output[1], env[<<"R">>].n)
    /\ JoinedLine =>
           IF 1 <= JoinedNumber /\ JoinedNumber <= ROMAN_MAX
           THEN IsRomanOf(JoinedPart, JoinedNumber)
           ELSE IsDecimalOf(JoinedPart, JoinedNumber)

\* "Summa: " ADDIUS 0 has been printed as `Summa: 0`
C20_Witness ==
    /\ JoinedLine
    /\ OperandA = String(<<"S","u","m","m","a",":"," ">>)
    /\ OperandB = Number(0)
    /\ output = << <<"S","u","m","m","a",":"," ","0">> >>

(***************************************************************************)
(* Claims about the codec's domain                                         *)
(***************************************************************************)
\* the texts test_from_roman_invalid and the specification name
NamedInvalid ==
    { <<"I","I","I","I">>, <<"V","V">>, <<"L","L">>, <<"D","D">>, <<"V","X">>, << >> }

LowerRomanLetters == {"i","v","x","l","c","d","m"}

\* C22 as stated: from_roman fails on IIII, VV, LL, DD, VX, the empty text and
\* on every text with a character outside I V X L C D M
C22_RejectsOutsideUpper ==
    cpc = "decoded" =>
        /\ str \in NamedInvalid => ~dec.ok
        /\ (\E i \in 1..Len(str) : str[i] \notin RomanLetters) => ~dec.ok

\* C22 amended: from_roman fails on IIII, VV, LL, DD, VX, the empty text and on
\* every text with a character that is not one of I V X L C D M in either
\* case; lower-case letters are folded first, so `xiv` is read as 14
C22_CanonicalRejection ==
    cpc = "decoded" =>
        /\ str \in NamedInvalid => ~dec.ok
        /\ (\E i \in 1..Len(str) : str[i] \notin RomanLetters \cup LowerRomanLetters)
               => ~dec.ok
        /\ str = <<"x","i","x">> => dec = Ok(19)
        /\ str = <<"i","x">> => dec = Ok(9)

\* from_roman has been called on a text with the character A and has failed
C22_Witness ==
    /\ cpc = "decoded"
    /\ str = <<"X","A","I">>
    /\ ~dec.ok

\* the numeral of one decimal digit d written with the letters one, five, ten
DigitNumeral(d, one, five, ten) ==
    CASE d = 0 -> << >>
      [] d = 1 -> <<one>> [] d = 2 -> <<one, one>> [] d = 3 -> <<one, one, one>>
      [] d = 4 -> <<one, five>> [] d = 5 -> <<five>>
      [] d = 6 -> <<five, one>> [] d = 7 -> <<five, one, one>>
      [] d = 8 -> <<five, one, one, one>> [] OTHER -> <<one, ten>>

\* the standard numeral of n in 1..3999, digit by digit
StandardNumeral(n) ==
    DigitNumeral(n \div 1000, "M", "?", "?")
        \o DigitNumeral((n \div 100) % 10, "C", "D", "M")
        \o DigitNumeral((n \div 10) % 10, "X", "L", "C")
        \o DigitNumeral(n % 10, "I", "V", "X")

LetterValue(c) ==
    CASE c = "M" -> 1000 [] c = "D" -> 500 [] c = "C" -> 100 [] c = "L" -> 50
      [] c = "X" -> 10 [] c = "V" -> 5 [] OTHER -> 1

\* the number a numeral denotes: a letter before a larger one is subtracted
RECURSIVE NumeralValue(_)
NumeralValue(s) ==
    IF Len(s) = 0 THEN 0
    ELSE IF Len(s) > 1 /\ LetterValue(s[1]) < LetterValue(s[2])
         THEN NumeralValue(Tail(s)) - LetterValue(s[1])
         ELSE NumeralValue(Tail(s)) + LetterValue(s[1])

\* the letter c stands k times in a row somewhere in s
Repeats(s, c, k) ==
    \E i \in 1..(Len(s) - k + 1) : \A j \in i..(i + k - 1) : s[j] = c

\* C23: to_roman succeeds exactly on 1..=3999; its result is the greedy
\* encoding, which denotes n alone (distinct n give distinct texts) and never
\* has V, L or D twice in a row or I, X, C or M four times in a row
C23_ToRomanDomain ==
    cpc \in {"encoded", "failed"} =>
        /\ rom.ok = (1 <= num /\ num <= ROMAN_MAX)
        /\ rom.ok =>
               /\ cpc = "encoded"
               /\ rom.val = StandardNumeral(num)
               /\ \A i \in 1..Len(rom.val) : rom.val[i] \in RomanLetters
               /\ NumeralValue(rom.val) = num
               /\ num < ROMAN_MAX => to_roman(num + 1) # rom
               /\ \A c \in {"V", "L", "D"} : ~Repeats(rom.val, c, 2)
               /\ \A c \in {"I", "X", "C", "M"} : ~Repeats(rom.val, c, 4)

\* to_roman(3888) has returned MMMDCCCLXXXVIII
C23_Witness ==
    /\ cpc = "encoded"
    /\ num = 3888
    /\ rom = Ok(<<"M","M","M","D","C","C","C","L","X","X","X","V","I","I","I">>)

(***************************************************************************)
(* Claims about whole programs                                             *)
(***************************************************************************)
\* the call in progress or returned was given the program text
Loaded(text) == loaded # NoProgram /\ loaded.text = text

C28_Frame ==
    (rpc \in {"run", "returned"} /\ Len(done) > 0) =>
        LET stmt == LastDone.stmt
            res == LastDone.res
            others == DOMAIN prevEnv \ {stmt.name}
        IN /\ stmt.kind \in {"Print", "Avtem", "Comment"} => env = prevEnv
           /\ ~res.ok => env = prevEnv
           /\ (res.ok /\ stmt.kind \in {"Declaration", "Assignment"}) =>
                  /\ DOMAIN env = DOMAIN prevEnv \cup {stmt.name}
                  /\ \A k \in others : env[k] = prevEnv[k]
                  /\ (stmt.name \in DOMAIN prevEnv) = (stmt.kind = "Assignment")

\* with X and Y declared, X EST 0 has changed X and left Y as it was
C28_Witness ==
    /\ rpc \in {"run", "returned"} /\ Len(done) > 0
    /\ LastDone.stmt.kind = "Assignment"
    /\ LastDone.res.ok
    /\ DOMAIN prevEnv = {<<"X">>, <<"Y">>}
    /\ prevEnv[<<"X">>] # Number(0)
    /\ env[<<"X">>] = Number(0)
    /\ env[<<"Y">>] = prevEnv[<<"Y">>]

(***************************************************************************)
(* Claims about the order in which a statement's errors are found          *)
(***************************************************************************)
\* the driver has executed a declaration of `name` whose initializer is a
\* binary operation with `operator`
Declared(name, operator) ==
    /\ epc \in {"stored", "done", "aborted"}
    /\ evalStmt.kind = "Declaration"
    /\ evalStmt.name = name
    /\ evalStmt.value.kind = "BinaryOp"
    /\ evalStmt.value.operator = operator

\* the operation name a type-mismatch error of the operator carries
OperationName(operator) ==
    CASE operator = "Subtract" -> "SUBTRAHE"
      [] operator = "Multiply" -> "MULTIPLICA"
      [] OTHER -> "DIVIDE"

\* the type-mismatch error of `operator` at the expression `expr`
NumbersExpected(operator, expr) ==
    Err([kind |-> "TypeMismatch", operation |-> OperationName(operator),
         expected |-> "numbers", span |-> expr.span])

\* the operands before the last statement
WasA == prevEnv[<<"A">>]

WasB == prevEnv[<<"B">>]

\* C21: A SUBTRAHE B, A MULTIPLICA B and A DIVIDE B fail with the type-mismatch
\* error naming the operator and "numbers" whenever A or B is a String (also
\* when B is 0); an operand that fails is reported instead: A SUBTRAHE Z and
\* Z DIVIDE A report the undefined Z whatever A is, and A MULTIPLICA (A DIVIDE B)
\* reports the error of the division
C21_TypeMismatch ==
    /\ \A operator \in {"Subtract", "Multiply", "Divide"} :
           (Declared(<<"R">>, operator)
                /\ (WasA.t = "String" \/ WasB.t = "String")) =>
               /\ evalOut = NumbersExpected(operator, evalStmt.value)
               /\ epc = "done"
    /\ (Declared(<<"R">>, "Divide") /\ WasA.t = "String" /\ WasB = Number(0)) =>
           evalOut.err.kind = "TypeMismatch"
    /\ Declared(<<"A">>, "Subtract") =>
           evalOut = Err([kind |-> "UndefinedVariable", name |-> <<"Z">>])
    /\ Declared(<<"A">>, "Divide") =>
           evalOut = Err([kind |-> "UndefinedVariable", name |-> <<"Z">>])
    /\ (Declared(<<"A">>, "Multiply")
            /\ (WasA.t = "String" \/ WasB.t = "String")) =>
           evalOut = NumbersExpected("Divide", evalStmt.value.right.inner)
    /\ (Declared(<<"A">>, "Multiply")
            /\ WasA.t = "Number" /\ WasB = Number(0)) =>
           evalOut = Err([kind |-> "DivisionByZero",
                          span |-> evalStmt.value.right.inner.span])

\* `DECLARA R EST A DIVIDE B` with A = "" and B = 0 has failed with the
\* type-mismatch error
C21_Witness ==
    /\ Declared(<<"R">>, "Divide")
    /\ WasA = String(<< >>)
    /\ WasB = Number(0)
    /\ evalOut.err.kind = "TypeMismatch"
    /\ evalOut.err.operation = "DIVIDE"
    /\ evalOut.err.expected = "numbers"

\* C27: a Declaration evaluates its initializer before it looks at the name:
\* DECLARA Z EST Z fails with undefined-variable and leaves Z undeclared; with
\* A declared, DECLARA A EST <initializer> returns the initializer's error
\* when the initializer fails and the already-declared error exactly when the
\* initializer has a value
C27_DeclarationOrder ==
    /\ (epc = "done" /\ evalStmt.kind = "Declaration" /\ evalStmt.name = <<"Z">>) =>
           /\ evalOut = Err([kind |-> "UndefinedVariable", name |-> <<"Z">>])
           /\ <<"Z">> \notin DOMAIN env
           /\ env = prevEnv
    /\ (epc = "done" /\ evalStmt.kind = "Declaration" /\ evalStmt.name = <<"A">>) =>
           /\ <<"A">> \in DOMAIN prevEnv
           /\ env = prevEnv
           /\ ~evalOut.ok
           /\ evalStmt.value.operator \in {"Subtract", "Divide"} =>
                  evalOut.err.kind = "UndefinedVariable"
           /\ evalStmt.value.operator = "Multiply" =>
                  LET numbers == WasA.t = "Number" /\ WasB.t = "Number"
                      divides == numbers /\ WasB.n # 0
                                     /\ ~(WasA.n = I32_MIN /\ WasB.n = -1)
                      has_value == divides
                                     /\ MulFits(WasA.n, i32_div(WasA.n, WasB.n))
                  IN /\ has_value =>
                         evalOut = Err([kind |-> "VariableAlreadyDeclared",
                                        name |-> <<"A">>])
                     /\ ~has_value =>
                         evalOut.err.kind \in
                             {"TypeMismatch", "DivisionByZero", "IntegerOverflow"}

\* with A = 6 and B = 2 declared, DECLARA A EST A MULTIPLICA (A DIVIDE B) has
\* failed with the already-declared error
C27_Witness ==
    /\ Declared(<<"A">>, "Multiply")
    /\ epc = "done"
    /\ WasA = Number(6)
    /\ WasB = Number(2)
    /\ evalOut = Err([kind |-> "VariableAlreadyDeclared", name |-> <<"A">>])
    /\ env = prevEnv

(***************************************************************************)
(* Claims about string literals and the positions the lexer reports        *)
(***************************************************************************)
\* the line and the column of the character that follows the first p
\* characters of the input
LineAt(p) == 1 + Cardinality({i \in 1..p : input[i] = "\n"})

ColumnAt(p) ==
    LET newlines == {i \in 1..p : input[i] = "\n"}
        last == CHOOSE i \in newlines \cup {0} : \A j \in newlines : j <= i
    IN 1 + p - last

\* the places behind the opening quote at CallStart that hold a double quote
\* or a newline
StringEnds ==
    {j \in (CallStart.pos + 2)..Len(input) : input[j] \in {"\"", "\n"}}

FirstStringEnd == CHOOSE j \in StringEnds : \A k \in StringEnds : j <= k

\* C26: a next_token call that starts at a double quote returns one
\* StringLiteral token holding, unchanged, the characters up to the next
\* double quote when that quote comes before any newline; when a newline or
\* the end of the input comes first, tokenize fails with the
\* unterminated-string error carrying the line of the opening quote
C26_StringLiterals ==
    (CallMade /\ Peek(input, CallStart) = "\"") =>
        LET open == CallStart.pos + 1
            closed == StringEnds # {} /\ input[FirstStringEnd] = "\""
        IN IF closed
           THEN /\ lpc = "scan" /\ lexres = NoResult
                /\ lastTok.kind = "StringLiteral"
                /\ lastTok.text = SubSeq(input, open + 1, FirstStringEnd - 1)
                /\ lastTok.lexeme = SubSeq(input, open, FirstStringEnd)
                /\ lx.pos = FirstStringEnd
                /\ Len(tokens) > 0 /\ tokens[Len(tokens)] = lastTok
                /\ \A i \in 1..(Len(tokens) - 1) :
                       tokens[i].span.end <= CallStart.pos
           ELSE /\ lpc = "done"
                /\ lexres = Err([kind |-> "UnterminatedString",
                                 line |-> LineAt(CallStart.pos)])

\* a brace between quotes has become one StringLiteral token
C26_Witness ==
    /\ input = <<"\"", "{", "\"">>
    /\ CallMade
    /\ lastTok.kind = "StringLiteral"
    /\ lastTok.text = <<"{">>
    /\ tokens = <<lastTok>>

\* C29: between two next_token calls the lexer's line is 1 plus the number of
\* newlines consumed and its column 1 plus the number of characters consumed
\* since the last newline; the unexpected-character error carries the line
\* and column of the offending character, and every token's span the line
\* and column of the token's first character
C29_PositionTracking ==
    /\ lx.line = LineAt(lx.pos)
    /\ lx.column = ColumnAt(lx.pos)
    /\ (lpc = "done" /\ ~lexres.ok /\ lexres.err.kind = "UnexpectedCharacter") =>
           /\ lexres.err.ch = input[CallStart.pos + 1]
           /\ lexres.err.line = LineAt(CallStart.pos)
           /\ lexres.err.column = ColumnAt(CallStart.pos)
    /\ \A i \in 1..Len(tokens) :
           /\ tokens[i].span.line = LineAt(tokens[i].span.start)
           /\ tokens[i].span.column = ColumnAt(tokens[i].span.start)
    /\ lastTok.kind # "None" =>
           /\ lastTok.span.line = LineAt(lastTok.span.start)
           /\ lastTok.span.column = ColumnAt(lastTok.span.start)

\* a colon after a newline and a blank is reported at line 2, column 2
C29_Witness ==
    /\ input = <<"\n", " ", ":">>
    /\ lpc = "done"
    /\ lexres = Err([kind |-> "UnexpectedCharacter", ch |-> ":",
                     line |-> 2, column |-> 2])

(***************************************************************************)
(* Claims about the parser's loop                                          *)
(***************************************************************************)
\* the place of the first end-of-input token of the stream
FirstEof ==
    CHOOSE i \in 1..Len(ptokens) :
        /\ ptokens[i].kind = "Eof"
        /\ \A j \in 1..(i - 1) : ptokens[j].kind # "Eof"

\* the token the latest parse_statement call started at
StatementStart == ptokens[pbefore + 1]

StatementStarts == {"Declara", "Scribe", "Avtem", "Comment", "Identifier"}

\* the claim as stated: parse fails with unexpected-end-of-input whenever it
\* is at the end-of-input token where a statement could start
C25_EndOfInputFails ==
    ppc = "returned" =>
        LET token == IF pout.ok THEN ptokens[pcurrent + 1] ELSE StatementStart IN
        /\ token.kind = "Eof" => pout = Err([kind |-> "UnexpectedEndOfInput"])
        /\ token.kind \notin StatementStarts \cup {"Eof"} =>
               pout = Err([kind |-> "UnexpectedToken",
                           expected |-> "DECLARA, SCRIBE, AVTEM, or identifier",
                           found |-> TokenName(token.kind),
                           span |-> token.span])

\* C25: parse never fails with unexpected-end-of-input: at the end-of-input
\* token in statement position it returns the Program of the statements
\* parsed so far; at any other token that starts no statement it fails with
\* the unexpected-token error naming the statement starts expected, the
\* token found and the token's span
C25_StatementPosition ==
    ppc = "returned" =>
        /\ pout # Err([kind |-> "UnexpectedEndOfInput"])
        /\ pout.ok =>
               /\ ptokens[pcurrent + 1].kind = "Eof"
               /\ pout.val = pstatements
        /\ (~pout.ok /\ StatementStart.kind \notin StatementStarts) =>
               /\ StatementStart.kind # "Eof"
               /\ pcurrent = pbefore
               /\ pout = Err([kind |-> "UnexpectedToken",
                              expected |-> "DECLARA, SCRIBE, AVTEM, or identifier",
                              found |-> TokenName(StatementStart.kind),
                              span |-> StatementStart.span])

\* AVTEM followed by EST: the statement is parsed, then parse fails at EST
C25_Witness ==
    /\ ppc = "returned"
    /\ Len(ptokens) = 3
    /\ ptokens[1].kind = "Avtem"
    /\ ptokens[2].kind = "Est"
    /\ Len(pstatements) = 1
    /\ pout.err.kind = "UnexpectedToken"
    /\ pout.err.found = TokenName("Est")
    /\ pout.err.span = ptokens[2].span

\* C30: while parse runs on a stream that ends with the end-of-input token,
\* the cursor stays at or before the first end-of-input token, so that peek
\* and previous index a token of the stream; a statement that is parsed has
\* moved the cursor forward; the loop can always take its next turn, takes
\* no more turns than there are tokens, and returns the Program of the
\* statements parsed or the error of the first statement that fails
C30_CursorSafety ==
    ppc \in {"loop", "returned"} =>
        /\ pcurrent \in 0..(FirstEof - 1)
        /\ pcurrent + 1 \in DOMAIN ptokens
        /\ (IF pcurrent > 0 THEN pcurrent - 1 ELSE 0) + 1 \in DOMAIN ptokens
        /\ pbefore <= pcurrent
        /\ (Len(pstatements) > 0 /\ (ppc = "loop" \/ pout.ok)) => pbefore < pcurrent
        /\ Len(pstatements) <= pcurrent
        /\ ppc = "loop" => ENABLED TokensNext
        /\ ppc = "returned" =>
               /\ pout = parse(ptokens)
               /\ pout.ok => pout.val = pstatements /\ pcurrent = FirstEof - 1

\* DECLARA X EST 1 and AVTEM have been parsed: the cursor is at the
\* end-of-input token, five tokens on
C30_Witness ==
    /\ ppc = "returned"
    /\ pout.ok
    /\ Len(pstatements) = 2
    /\ pstatements[1].kind = "Declaration"
    /\ pstatements[2].kind = "Avtem"
    /\ pcurrent = 5
    /\ pbefore = 4

====
